---------------------------- MODULE Spec2Model ----------------------------
(***************************************************************************)
(* GeckoPilot setup runner: the audit -> plan -> execute pipeline.         *)
(*                                                                         *)
(*   Auditor   src/src/SetupRunner/Auditor.ts   parseVersion, runAudit     *)
(*   Planner   src/src/SetupRunner/Executor.ts  createActionPlan,          *)
(*                                              determineAction (l.871-921)*)
(*   Executor  src/src/SetupRunner/Executor.ts  executePlan and helpers    *)
(*                                              (l.441-854)                *)
(*                                                                         *)
(*   Orchestrator  src/src/orchestrator.ts      runFullValidationAndSetup  *)
(*                                              runCheckRequirements       *)
(*   Extension     src/unnamed/part_005         activate,                  *)
(*                                              runFromExistingFileCommand *)
(*                                                                         *)
(* The specifications share the variables below:                           *)
(*   SpecPlanner   createActionPlan applied to arbitrary AuditResult lists *)
(*   SpecPipeline  runAudit on a requirement list, then createActionPlan   *)
(*   SpecExec      executePlan walking a plan on a host                    *)
(*   SpecSetup     runFullValidationAndSetup: audit, plan, executePlan,    *)
(*                 scaffold and final setup, with a cancellation token     *)
(*   SpecRerun     the pipeline run twice on the machine the first run left*)
(*   SpecDetect    detectLinuxPackageManager applied to Linux hosts        *)
(*   SpecCheck     runCheckRequirements, then createActionPlan on its audit*)
(*   FairSpecExec  executePlan with children that settle and modals that   *)
(*                 are acknowledged                                        *)
(*   SpecOverlap   the setup command invoked again while a run is waiting  *)
(***************************************************************************)
EXTENDS Integers, Sequences, FiniteSets, TLC

VARIABLES
    \* ---- Auditor / Planner ----
    requirements,   \* DependencyRequirement[] handed to runAudit
    probeOutcomes,  \* what each version probe did (environment, fixed by the audit)
    auditResults,   \* AuditResult[]: runAudit's return value, the Planner's input
    auditThrew,     \* runAudit raised to its caller
    actionPlan,     \* result of the first createActionPlan call
    secondPlan,     \* result of a second createActionPlan call on the same input
    planPc,         \* "start" | "audited" | "planned" | "replanned" | "idle"
    \* ---- Executor ----
    host,           \* process.platform, the binaries on disk and on PATH, winget
    plan,           \* the ActionPlan handed to executePlan
    pc,             \* where executePlan is: "loop", an await, "returned", "raised"
    idx,            \* index of the plan step the for loop is at (1-based)
    result,         \* the ExecutionResult being built
    terminals,      \* vscode.window.terminals (names of the open terminals)
    events,         \* what the Executor did to the outside world, in order
    child,          \* the child process whose promise is awaited, or NoChild
    lingering,      \* children that emitted 'error' and have yet to emit 'close'
    \* ---- Orchestrator ----
    setupPc,        \* where runFullValidationAndSetup is
    token,          \* the CancellationToken, and where the run was when it was set
    setupResult,    \* the SetupResult returned
    phases,         \* the collaborators started and how they settled, in order
    \* ---- other entry points ----
    detected,       \* what detectLinuxPackageManager returned, "undetected" before
    checkResult,    \* the CheckResult runCheckRequirements returned
    runs            \* the invocations of the setup command: each one's executePlan

plannerVars == <<requirements, probeOutcomes, auditResults,
                 auditThrew, actionPlan, secondPlan, planPc>>

execVars == <<host, plan, pc, idx, result, terminals, events, child, lingering>>

setupVars == <<setupPc, token, setupResult, phases>>

otherVars == <<detected, checkResult, runs>>

vars == <<plannerVars, execVars, setupVars, otherVars>>

-----------------------------------------------------------------------------
(* Bounds of the model *)

\* longest AuditResult list handed to the Planner
MaxAudit == 2
\* longest requirement list handed to the Auditor
MaxReqs == 2
\* longest ActionPlan handed to executePlan
MaxPlan == 2

BoundedSeq(S, n) == UNION {[1..k -> S] : k \in 0..n}

-----------------------------------------------------------------------------
(* Semantic versions and ranges (the semver library used by the code) *)

Version(a, b, c) == <<a, b, c>>

\* lexicographic comparison of MAJOR.MINOR.PATCH: -1, 0, 1
compare(v, w) ==
    IF v[1] # w[1] THEN (IF v[1] < w[1] THEN -1 ELSE 1)
    ELSE IF v[2] # w[2] THEN (IF v[2] < w[2] THEN -1 ELSE 1)
    ELSE IF v[3] # w[3] THEN (IF v[3] < w[3] THEN -1 ELSE 1)
    ELSE 0

\* requiredVersion?: string -- absent, a comparator range, or text that is no range
AbsentRange == [tag |-> "absent", op |-> "", v |-> Version(0, 0, 0)]
Range(op, v) == [tag |-> "range", op |-> op, v |-> v]
InvalidRange == [tag |-> "invalid", op |-> "", v |-> Version(0, 0, 0)]

\* installedVersion?: string | null -- absent, raw probe text, or text that is
\* a MAJOR.MINOR.PATCH version
AbsentVersion == [tag |-> "absent", text |-> <<>>, v |-> Version(0, 0, 0)]
SemVer(v) == [tag |-> "semver", text |-> <<>>, v |-> v]
RawVersion(text) == [tag |-> "raw", text |-> text, v |-> Version(0, 0, 0)]

\* JavaScript truthiness of an optional string
Truthy(x) == x.tag # "absent"

\* semver.valid(installedVersion) # null
valid(ver) == ver.tag = "semver"

\* the upper end of a caret range ^a.b.c
caretUpper(v) ==
    IF v[1] > 0 THEN Version(v[1] + 1, 0, 0)
    ELSE IF v[2] > 0 THEN Version(0, v[2] + 1, 0)
    ELSE Version(0, 0, v[3] + 1)

\* semver.satisfies(version, range): false when either side does not parse
satisfies(ver, range) ==
    IF ~valid(ver) \/ range.tag # "range" THEN FALSE
    ELSE CASE range.op = ">=" -> compare(ver.v, range.v) >= 0
           [] range.op = ">"  -> compare(ver.v, range.v) > 0
           [] range.op = "<=" -> compare(ver.v, range.v) <= 0
           [] range.op = "<"  -> compare(ver.v, range.v) < 0
           [] range.op = "="  -> compare(ver.v, range.v) = 0
           [] range.op = "^"  -> /\ compare(ver.v, range.v) >= 0
                                 /\ compare(ver.v, caretUpper(range.v)) < 0
           [] OTHER -> FALSE

-----------------------------------------------------------------------------
(* Dependency requirements *)

DependencyRequirement(id, name, range) ==
    [id |-> id, name |-> name, requiredVersion |-> range]

GIT_MIN == Range(">=", Version(2, 0, 0))
NODE_LTS_MIN == Range(">=", Version(18, 0, 0))

\* entries of the master list, a custom-flow copy with requiredVersion cleared,
\* and hand-written .devsetup.json entries
SampleRequirements ==
    { DependencyRequirement("git", "Git", GIT_MIN),
      DependencyRequirement("git", "Git", AbsentRange),
      DependencyRequirement("node", "Node.js (LTS)", NODE_LTS_MIN),
      DependencyRequirement("docker", "Docker Engine/Desktop", AbsentRange),
      DependencyRequirement("mytool", "My Tool", Range("^", Version(1, 9, 0))),
      DependencyRequirement("mytool", "My Tool", InvalidRange) }

-----------------------------------------------------------------------------
(* Probe output.  The text a version probe prints is a sequence of tokens:  *)
(* words, DIGITS.DIGITS.DIGITS groups and newlines; adjacent tokens are     *)
(* separated by a blank.                                                    *)

Word(w) == [k |-> "word", w |-> w, v |-> Version(0, 0, 0), lz |-> FALSE, vp |-> FALSE]
\* a DIGITS.DIGITS.DIGITS group; lz: a component has a leading zero (no valid
\* semver); vp: the group is written with a leading "v"
Num(v, lz, vp) == [k |-> "num", w |-> "", v |-> v, lz |-> lz, vp |-> vp]
NL == [k |-> "nl", w |-> "", v |-> Version(0, 0, 0), lz |-> FALSE, vp |-> FALSE]

\* words whose tail matches /version\s+/i, and /is\s+/i
VersionWords == {"version", "Version", "garbage-no-version"}
IsWords == {"is", "This"}

RECURSIVE trimStart(_)
trimStart(out) ==
    IF out # <<>> /\ Head(out).k = "nl" THEN trimStart(Tail(out)) ELSE out

RECURSIVE trimEnd(_)
trimEnd(out) ==
    IF out # <<>> /\ out[Len(out)].k = "nl"
    THEN trimEnd(SubSeq(out, 1, Len(out) - 1)) ELSE out

\* String.prototype.trim
trim(out) == trimEnd(trimStart(out))

\* index of the leftmost token satisfying P, 0 when there is none
FirstIndex(out, P(_, _)) ==
    LET hits == {i \in 1..Len(out) : P(out, i)}
    IN  IF hits = {} THEN 0 ELSE CHOOSE i \in hits : \A j \in hits : i <= j

\* /v?(\d+\.\d+\.\d+)/ matches at token i
MatchSimple(out, i) == out[i].k = "num"

\* /(?:version\s+|is\s+)(\d+\.\d+\.\d+)/i : the digits follow the word directly
MatchVersionOrIs(out, i) ==
    /\ out[i].k = "num" /\ ~out[i].vp
    /\ i > 1 /\ out[i-1].k = "word" /\ out[i-1].w \in VersionWords \cup IsWords

\* /version\s+(\d+\.\d+\.\d+)/i
MatchVersion(out, i) ==
    /\ out[i].k = "num" /\ ~out[i].vp
    /\ i > 1 /\ out[i-1].k = "word" /\ out[i-1].w \in VersionWords

\* semver.valid of the text of one DIGITS.DIGITS.DIGITS group
validGroup(tok) == ~tok.lz

\* semver.valid(output.trim()): the whole text is one version
validWhole(out) ==
    LET t == trim(out) IN Len(t) = 1 /\ t[1].k = "num" /\ ~t[1].lz

parseVersion(output) ==
    LET m1 == FirstIndex(output, MatchSimple)
        m2 == FirstIndex(output, MatchVersionOrIs)
        m3 == FirstIndex(output, MatchVersion)
    IN  IF output = <<>> THEN AbsentVersion
        ELSE IF m1 # 0 /\ validGroup(output[m1]) THEN SemVer(output[m1].v)
        ELSE IF m2 # 0 /\ validGroup(output[m2]) THEN SemVer(output[m2].v)
        ELSE IF m3 # 0 /\ validGroup(output[m3]) THEN SemVer(output[m3].v)
        ELSE IF validWhole(output) THEN SemVer(trim(output)[1].v)
        ELSE RawVersion(trim(output))

-----------------------------------------------------------------------------
(* Auditor: runAudit (Auditor.ts l.55-97) *)

\* notes?: string
AbsentNote == [tag |-> "absent", text |-> <<>>, message |-> ""]
\* `Could not parse version from output: ${versionOutput}`
ParseNote(out) == [tag |-> "parse", text |-> out, message |-> ""]
\* `Command execution failed: ${error.message}`
FailNote(msg) == [tag |-> "failed", text |-> <<>>, message |-> msg]

AuditResult(dep, inst, ver, notes) ==
    [dependency |-> dep, isInstalled |-> inst, installedVersion |-> ver, notes |-> notes]

\* What childProcess.execSync does for one probe: exit "zero" returns stdout;
\* a non-zero exit and a failure to start the binary throw an Error carrying
\* message (stdout is then only a property of the error object).
ProbeOutcome(exit, stdout, msg) == [exit |-> exit, stdout |-> stdout, message |-> msg]

SampleOutputs ==
    { <<>>,
      <<NL>>,
      <<Num(Version(18, 2, 1), FALSE, TRUE), NL>>,
      <<Word("Python"), Num(Version(3, 10, 4), FALSE, FALSE), NL>>,
      <<Word("git"), Word("version"), Num(Version(1, 9, 0), FALSE, FALSE)>>,
      <<Word("garbage-no-version"), NL>>,
      <<Num(Version(1, 2, 3), TRUE, FALSE), Word("Version"), Num(Version(2, 5, 0), FALSE, FALSE)>> }

\* what a probe that exits non-zero printed before it did
NonZeroOutputs ==
    { <<>>, <<Word("openjdk"), Word("version"), Num(Version(21, 0, 1), FALSE, FALSE), NL>> }

ProbeOutcomes ==
    {ProbeOutcome("zero", o, "") : o \in SampleOutputs}
    \cup {ProbeOutcome("nonzero", o, "Command failed") : o \in NonZeroOutputs}
    \cup {ProbeOutcome("spawnfail", <<>>, "ENOENT")}

\* auditOne with a catch block that rethrows
auditOneRethrows(dep, probe) ==
    IF probe.exit = "zero"
    THEN LET versionOutput == trim(probe.stdout)
             installedVersion == parseVersion(versionOutput)
         IN  [threw |-> FALSE,
              result |-> AuditResult(dep, TRUE, installedVersion,
                            IF Truthy(installedVersion) THEN AbsentNote
                            ELSE ParseNote(versionOutput))]
    ELSE [threw |-> TRUE,
          result |-> AuditResult(dep, FALSE, AbsentVersion, FailNote(probe.message))]

\* auditOne reading the output captured by a probe that exited non-zero
auditOneTrustsOutput(dep, probe) ==
    IF probe.exit = "zero" \/ (probe.exit = "nonzero" /\ trim(probe.stdout) # <<>>)
    THEN LET versionOutput == trim(probe.stdout)
             installedVersion == parseVersion(versionOutput)
         IN  [threw |-> FALSE,
              result |-> AuditResult(dep, TRUE, installedVersion,
                            IF Truthy(installedVersion) THEN AbsentNote
                            ELSE ParseNote(versionOutput))]
    ELSE [threw |-> FALSE,
          result |-> AuditResult(dep, FALSE, AbsentVersion, FailNote(probe.message))]

\* one iteration of the for loop: the try block and its catch
auditOne(dep, probe) ==
    IF probe.exit = "zero"
    THEN LET versionOutput == trim(probe.stdout)
             installedVersion == parseVersion(versionOutput)
         IN  [threw |-> FALSE,
              result |-> AuditResult(dep, TRUE, installedVersion,
                            IF Truthy(installedVersion) THEN AbsentNote
                            ELSE ParseNote(versionOutput))]
    ELSE [threw |-> FALSE,
          result |-> AuditResult(dep, FALSE, AbsentVersion, FailNote(probe.message))]

\* the for loop; an exception leaving an iteration would leave the function
RECURSIVE auditLoop(_, _, _, _)
auditLoop(reqs, probes, i, results) ==
    IF i > Len(reqs) THEN [threw |-> FALSE, results |-> results]
    ELSE LET one == auditOne(reqs[i], probes[i])
         IN  IF one.threw THEN [threw |-> TRUE, results |-> results]
             ELSE auditLoop(reqs, probes, i + 1, Append(results, one.result))

runAudit(reqs, probes) == auditLoop(reqs, probes, 1, <<>>)

-----------------------------------------------------------------------------
(* Planner: createActionPlan, determineAction (Executor.ts l.871-921) *)

ActionStep(dep, action, reason) ==
    [dependency |-> dep, action |-> action, reason |-> reason]

\* determineAction testing the version before isInstalled
determineActionVersionFirst(r) ==
    LET dependency == r.dependency
        installedVersion == r.installedVersion
    IN  IF Truthy(dependency.requiredVersion) /\ Truthy(installedVersion)
           /\ satisfies(installedVersion, dependency.requiredVersion)
        THEN ActionStep(dependency, "ALREADY_MET", "is installed at a compatible version")
        ELSE IF ~r.isInstalled
        THEN ActionStep(dependency, "INSTALL", "is not installed.")
        ELSE IF ~Truthy(dependency.requiredVersion)
        THEN ActionStep(dependency, "ALREADY_MET", "No specific version required.")
        ELSE ActionStep(dependency, "REINSTALL", "is installed at an incompatible version")

\* determineAction whose no-range branch also asks for a detected version
determineActionNeedsVersion(r) ==
    LET dependency == r.dependency
        installedVersion == r.installedVersion
    IN  IF ~r.isInstalled
        THEN ActionStep(dependency, "INSTALL", "is not installed.")
        ELSE IF /\ Truthy(dependency.requiredVersion) /\ Truthy(installedVersion)
                /\ satisfies(installedVersion, dependency.requiredVersion)
        THEN ActionStep(dependency, "ALREADY_MET", "is installed at a compatible version")
        ELSE IF ~Truthy(dependency.requiredVersion) /\ valid(installedVersion)
        THEN ActionStep(dependency, "ALREADY_MET", "No specific version required.")
        ELSE ActionStep(dependency, "REINSTALL", "is installed at an incompatible version")

\* determineAction without the semver.satisfies test
determineActionNoRangeTest(r) ==
    LET dependency == r.dependency
        installedVersion == r.installedVersion
    IN  IF ~r.isInstalled
        THEN ActionStep(dependency, "INSTALL", "is not installed.")
        ELSE IF Truthy(dependency.requiredVersion) /\ Truthy(installedVersion)
        THEN ActionStep(dependency, "ALREADY_MET", "is installed at a compatible version")
        ELSE IF ~Truthy(dependency.requiredVersion)
        THEN ActionStep(dependency, "ALREADY_MET", "No specific version required.")
        ELSE ActionStep(dependency, "REINSTALL", "is installed at an incompatible version")

\* determineAction that accepts a tool without required range only when its
\* version was parsed
determineActionReinstallsUnversioned(r) ==
    LET dependency == r.dependency
        installedVersion == r.installedVersion
    IN  IF ~r.isInstalled
        THEN ActionStep(dependency, "INSTALL", "is not installed.")
        ELSE IF /\ Truthy(dependency.requiredVersion) /\ Truthy(installedVersion)
                /\ satisfies(installedVersion, dependency.requiredVersion)
        THEN ActionStep(dependency, "ALREADY_MET", "is installed at a compatible version")
        ELSE IF ~Truthy(dependency.requiredVersion) /\ valid(installedVersion)
        THEN ActionStep(dependency, "ALREADY_MET", "No specific version required.")
        ELSE ActionStep(dependency, "REINSTALL", "is installed at an incompatible version")

\* determineAction whose else-branch is taken when either side is missing
determineActionMissingIsMet(r) ==
    LET dependency == r.dependency
        installedVersion == r.installedVersion
    IN  IF ~r.isInstalled
        THEN ActionStep(dependency, "INSTALL", "is not installed.")
        ELSE IF /\ Truthy(dependency.requiredVersion) /\ Truthy(installedVersion)
                /\ satisfies(installedVersion, dependency.requiredVersion)
        THEN ActionStep(dependency, "ALREADY_MET", "is installed at a compatible version")
        ELSE IF ~Truthy(dependency.requiredVersion) \/ ~Truthy(installedVersion)
        THEN ActionStep(dependency, "ALREADY_MET", "No specific version required.")
        ELSE ActionStep(dependency, "REINSTALL", "is installed at an incompatible version")

determineAction(r) ==
    LET dependency == r.dependency
        isInstalled == r.isInstalled
        installedVersion == r.installedVersion
    IN  IF ~isInstalled
        THEN ActionStep(dependency, "INSTALL", "is not installed.")
        ELSE IF /\ Truthy(dependency.requiredVersion) /\ Truthy(installedVersion)
                /\ satisfies(installedVersion, dependency.requiredVersion)
        THEN ActionStep(dependency, "ALREADY_MET", "is installed at a compatible version")
        ELSE IF ~(Truthy(dependency.requiredVersion) /\ Truthy(installedVersion))
                /\ ~Truthy(dependency.requiredVersion)
        THEN ActionStep(dependency, "ALREADY_MET", "No specific version required.")
        ELSE ActionStep(dependency, "REINSTALL", "is installed at an incompatible version")

RECURSIVE planLoop(_, _, _)
planLoop(results, i, steps) ==
    IF i > Len(results) THEN steps
    ELSE planLoop(results, i + 1, Append(steps, determineAction(results[i])))

\* createActionPlan keeping only the steps that need work
createActionPlanOnlyWork(results) ==
    SelectSeq(planLoop(results, 1, <<>>), LAMBDA st : st.action # "ALREADY_MET")

createActionPlan(results) == planLoop(results, 1, <<>>)

-----------------------------------------------------------------------------
(* Dependency Catalog: PACKAGE_NAMES of ./dependencyConfig.  An entry maps  *)
(* win32, darwin and the four Linux managers to a package name, to null     *)
(* (no automated path) or to nothing at all.                                *)

Pkg(name) == [tag |-> "name", name |-> name]
NullPkg == [tag |-> "null", name |-> ""]
UndefinedPkg == [tag |-> "undefined", name |-> ""]

CatalogKeys == {"win32", "darwin", "apt", "dnf", "pacman", "zypper"}

PACKAGE_NAMES ==
    [ git |-> [win32 |-> Pkg("Git.Git"), darwin |-> Pkg("git"), apt |-> Pkg("git"),
               dnf |-> Pkg("git"), pacman |-> Pkg("git"), zypper |-> Pkg("git")],
      mongodb |-> [win32 |-> Pkg("MongoDB.Server"), darwin |-> NullPkg, apt |-> NullPkg,
                   dnf |-> NullPkg, pacman |-> Pkg("mongodb"), zypper |-> NullPkg],
      docker |-> [win32 |-> NullPkg, darwin |-> Pkg("docker"), apt |-> Pkg("docker.io"),
                  dnf |-> UndefinedPkg, pacman |-> Pkg("docker"), zypper |-> UndefinedPkg] ]

\* PACKAGE_NAMES[dep.id] is defined
HasCatalogEntry(id) == id \in DOMAIN PACKAGE_NAMES

\* platformSpecificPackageMap[key]
lookupPackage(id, key) ==
    IF key \in DOMAIN PACKAGE_NAMES[id] THEN PACKAGE_NAMES[id][key] ELSE UndefinedPkg

-----------------------------------------------------------------------------
(* The host: process.platform, files under the well-known directories, the  *)
(* binaries `which` finds on PATH, and whether `winget --version` succeeds. *)

Host(platform, files, onPath, winget) ==
    [platform |-> platform, files |-> files, onPath |-> onPath, winget |-> winget]

pathsToCheck == <<"/usr/bin/", "/bin/", "/usr/sbin/", "/sbin/">>

\* the manager whose binary is found in one directory, apt first; "" for none
managerIn(files, dir) ==
    IF <<dir, "apt-get">> \in files THEN "apt"
    ELSE IF <<dir, "dnf">> \in files THEN "dnf"
    ELSE IF <<dir, "pacman">> \in files THEN "pacman"
    ELSE IF <<dir, "zypper">> \in files THEN "zypper"
    ELSE ""

\* the for loop over pathsToCheck
RECURSIVE detectInPaths(_, _)
detectInPaths(files, i) ==
    IF i > Len(pathsToCheck) THEN ""
    ELSE IF managerIn(files, pathsToCheck[i]) # "" THEN managerIn(files, pathsToCheck[i])
    ELSE detectInPaths(files, i + 1)

\* the four `which` lookups that follow the loop
detectOnPath(onPath) ==
    IF "apt-get" \in onPath THEN "apt"
    ELSE IF "dnf" \in onPath THEN "dnf"
    ELSE IF "pacman" \in onPath THEN "pacman"
    ELSE IF "zypper" \in onPath THEN "zypper"
    ELSE ""

\* detection that takes apt for granted once the well-known directories
\* hold no manager, without asking `which`
detectLinuxPackageManagerAptFallback(h) ==
    IF detectInPaths(h.files, 1) # "" THEN detectInPaths(h.files, 1)
    ELSE "apt"

\* 'apt' | 'dnf' | 'pacman' | 'zypper' | null (written "")
detectLinuxPackageManager(h) ==
    IF detectInPaths(h.files, 1) # "" THEN detectInPaths(h.files, 1)
    ELSE detectOnPath(h.onPath)

-----------------------------------------------------------------------------
(* Commands.  A command line is the sequence of its words.                  *)

installArgs(manager, pkg) ==
    CASE manager = "apt"    -> <<"sudo", "apt-get", "install", "-y", pkg>>
      [] manager = "dnf"    -> <<"sudo", "dnf", "install", "-y", pkg>>
      [] manager = "pacman" -> <<"sudo", "pacman", "-S", "--noconfirm", pkg>>
      [] manager = "zypper" -> <<"sudo", "zypper", "install", "-y", pkg>>

removeArgs(manager, pkg) ==
    CASE manager = "apt"    -> <<"sudo", "apt-get", "remove", "-y", pkg>>
      [] manager = "dnf"    -> <<"sudo", "dnf", "remove", "-y", pkg>>
      [] manager = "pacman" -> <<"sudo", "pacman", "-Rns", "--noconfirm", pkg>>
      [] manager = "zypper" -> <<"sudo", "zypper", "remove", "-y", pkg>>

brewInstall(pkg) == <<"brew", "install", pkg>>
brewUninstall(pkg) == <<"brew", "uninstall", pkg>>
wingetInstall(pkg) ==
    <<"winget", "install", "--id", pkg, "--source", "winget",
      "--accept-source-agreements", "--accept-package-agreements", "-e", "--force">>
wingetUninstall(pkg) ==
    <<"winget", "uninstall", "--id", pkg, "--source", "winget",
      "--accept-source-agreements", "-e">>

manualInstall(name) == <<"Manual installation needed for", name>>
manualRemoval(name) == <<"Manual removal needed for", name>>

\* cmd.startsWith("Manual")
startsWithManual(cmd) ==
    cmd # <<>> /\ cmd[1] \in {"Manual installation needed for", "Manual removal needed for"}

NoCommand == <<>>

-----------------------------------------------------------------------------
(* installDependency and uninstallDependency up to their first await:       *)
(* what the call resolves to on a host.                                     *)
(*   kind "throw"   an Error is thrown (message)                            *)
(*   kind "manual"  the null sentinel: returns without running anything     *)
(*   kind "sudo"    the command goes to the terminal, then the modal        *)
(*   kind "spawn"   the command runs in a child process                     *)
(*   kind "skip"    uninstall only: returns without running anything        *)
(* wingetChecked: `winget --version` was run on the way.                    *)

Resolution(kind, command, message, wingetChecked) ==
    [kind |-> kind, command |-> command, message |-> message,
     wingetChecked |-> wingetChecked]

\* the package name installDependency looks up (l.562-580)
installPackageName(dep, h) ==
    IF h.platform \in {"win32", "darwin"} THEN lookupPackage(dep.id, h.platform)
    ELSE IF h.platform = "linux"
    THEN (IF detectLinuxPackageManager(h) # ""
          THEN lookupPackage(dep.id, detectLinuxPackageManager(h))
          ELSE UndefinedPkg)
    ELSE lookupPackage(dep.id, h.platform)

\* installDependency that runs the Linux command in a child process
\* (requiresSudo left false)
installDependencySpawnsSudo(step, h) ==
    LET dep == step.dependency
        manager == IF h.platform = "linux" THEN detectLinuxPackageManager(h) ELSE ""
        packageName == installPackageName(dep, h)
    IN  IF ~HasCatalogEntry(dep.id)
        THEN Resolution("throw", NoCommand, "No configuration found for dependency ID", FALSE)
        ELSE IF h.platform = "linux" /\ manager = ""
        THEN Resolution("throw", NoCommand, "Could not detect supported Linux package manager", FALSE)
        ELSE IF h.platform \notin {"win32", "darwin", "linux"} /\ packageName.tag = "undefined"
        THEN Resolution("throw", NoCommand, "Platform is not explicitly supported", FALSE)
        ELSE IF packageName.tag = "null"
        THEN Resolution("manual", manualInstall(dep.name), "", FALSE)
        ELSE IF packageName.tag # "name"
        THEN Resolution("throw", NoCommand, "No installation package name found", FALSE)
        ELSE IF h.platform = "darwin"
        THEN Resolution("spawn", brewInstall(packageName.name), "", FALSE)
        ELSE IF h.platform = "win32"
        THEN (IF ~h.winget
              THEN Resolution("throw", NoCommand, "Winget prerequisite missing.", TRUE)
              ELSE Resolution("spawn", wingetInstall(packageName.name), "", TRUE))
        ELSE IF h.platform = "linux" /\ manager # ""
        THEN Resolution("spawn", installArgs(manager, packageName.name), "", FALSE)
        ELSE Resolution("throw", NoCommand, "Unsupported or undetermined platform configuration", FALSE)

\* installDependency without the null test of l.582-585: the sentinel falls
\* into the !packageName test and throws
installDependencyNullThrows(step, h) ==
    LET dep == step.dependency
        manager == IF h.platform = "linux" THEN detectLinuxPackageManager(h) ELSE ""
        packageName == installPackageName(dep, h)
    IN  IF ~HasCatalogEntry(dep.id)
        THEN Resolution("throw", NoCommand, "No configuration found for dependency ID", FALSE)
        ELSE IF h.platform = "linux" /\ manager = ""
        THEN Resolution("throw", NoCommand, "Could not detect supported Linux package manager", FALSE)
        ELSE IF h.platform \notin {"win32", "darwin", "linux"} /\ packageName.tag = "undefined"
        THEN Resolution("throw", NoCommand, "Platform is not explicitly supported", FALSE)
        ELSE IF packageName.tag # "name"
        THEN Resolution("throw", NoCommand, "No installation package name found", FALSE)
        ELSE IF h.platform = "darwin"
        THEN Resolution("spawn", brewInstall(packageName.name), "", FALSE)
        ELSE IF h.platform = "win32"
        THEN (IF ~h.winget
              THEN Resolution("throw", NoCommand, "Winget prerequisite missing.", TRUE)
              ELSE Resolution("spawn", wingetInstall(packageName.name), "", TRUE))
        ELSE IF h.platform = "linux" /\ manager # ""
        THEN Resolution("sudo", installArgs(manager, packageName.name), "", FALSE)
        ELSE Resolution("throw", NoCommand, "Unsupported or undetermined platform configuration", FALSE)

\* installDependency (l.541-668)
installDependency(step, h) ==
    LET dep == step.dependency
        manager == IF h.platform = "linux" THEN detectLinuxPackageManager(h) ELSE ""
        packageName == installPackageName(dep, h)
    IN  IF ~HasCatalogEntry(dep.id)
        THEN Resolution("throw", NoCommand, "No configuration found for dependency ID", FALSE)
        ELSE IF h.platform = "linux" /\ manager = ""
        THEN Resolution("throw", NoCommand, "Could not detect supported Linux package manager", FALSE)
        ELSE IF h.platform \notin {"win32", "darwin", "linux"} /\ packageName.tag = "undefined"
        THEN Resolution("throw", NoCommand, "Platform is not explicitly supported", FALSE)
        ELSE IF packageName.tag = "null"
        THEN Resolution("manual", manualInstall(dep.name), "", FALSE)
        ELSE IF packageName.tag # "name"
        THEN Resolution("throw", NoCommand, "No installation package name found", FALSE)
        ELSE IF h.platform = "darwin"
        THEN Resolution("spawn", brewInstall(packageName.name), "", FALSE)
        ELSE IF h.platform = "win32"
        THEN (IF ~h.winget
              THEN Resolution("throw", NoCommand, "Winget prerequisite missing.", TRUE)
              ELSE Resolution("spawn", wingetInstall(packageName.name), "", TRUE))
        ELSE IF h.platform = "linux" /\ manager # ""
        THEN Resolution("sudo", installArgs(manager, packageName.name), "", FALSE)
        ELSE Resolution("throw", NoCommand, "Unsupported or undetermined platform configuration", FALSE)

\* the package name uninstallDependency looks up (l.685-698)
uninstallPackageName(dep, h) ==
    IF h.platform \in {"win32", "darwin"} THEN lookupPackage(dep.id, h.platform)
    ELSE IF h.platform = "linux"
    THEN (IF detectLinuxPackageManager(h) # ""
          THEN lookupPackage(dep.id, detectLinuxPackageManager(h))
          ELSE UndefinedPkg)
    ELSE lookupPackage(dep.id, h.platform)

\* uninstallDependency (l.672-760)
uninstallDependency(step, h) ==
    LET dep == step.dependency
        manager == IF h.platform = "linux" THEN detectLinuxPackageManager(h) ELSE ""
        packageName == uninstallPackageName(dep, h)
    IN  IF ~HasCatalogEntry(dep.id)
        THEN Resolution("skip", NoCommand, "", FALSE)
        ELSE IF h.platform \notin {"win32", "darwin", "linux"} /\ packageName.tag = "undefined"
        THEN Resolution("skip", NoCommand, "", FALSE)
        ELSE IF packageName.tag = "null"
        THEN Resolution("manual", manualRemoval(dep.name), "", FALSE)
        ELSE IF packageName.tag # "name"
        THEN Resolution("skip", NoCommand, "", FALSE)
        ELSE IF h.platform = "darwin"
        THEN Resolution("spawn", brewUninstall(packageName.name), "", FALSE)
        ELSE IF h.platform = "win32"
        THEN Resolution("spawn", wingetUninstall(packageName.name), "", FALSE)
        ELSE IF h.platform = "linux" /\ manager # ""
        THEN Resolution("sudo", removeArgs(manager, packageName.name), "", FALSE)
        ELSE Resolution("skip", NoCommand, "", FALSE)

-----------------------------------------------------------------------------
(* executePlan (Executor.ts l.766-854).  The operators below work on the    *)
(* record m of the Executor's own state; h is the host.                     *)

ExecutionResult(n) ==
    [totalSteps |-> n, stepsAttempted |-> 0, stepsSucceeded |-> 0,
     stepsSkippedSudo |-> 0, stepsFailed |-> 0,
     manualSudoCommands |-> <<>>, failedStepsInfo |-> <<>>]

FailedStepInfo(step, msg) ==
    [dependencyName |-> step.dependency.name, action |-> step.action,
     errorMessage |-> msg]

NoChild == [state |-> "none", command |-> NoCommand]
RunningChild(cmd) == [state |-> "running", command |-> cmd]

\* kinds: "attempt" (stepsAttempted++), "wingetCheck", "sendText" (terminal),
\* "ack" (modal closed), "spawn" (child process started), "spawnThrew"
\* (spawn threw synchronously, l.522-525), "exit0" /
\* "exitNonZero" / "error" (the child's 'close' or 'error' event, which
\* settles its promise), and the counter a step lands in: "succeeded",
\* "skippedSudo", "failed"
Event(kind, step, command) == [kind |-> kind, step |-> step, command |-> command]

SudoTerminalName == "GeckoPilot Sudo Runner"

\* getSudoTerminal without the lookup of an existing terminal
getSudoTerminalAlwaysCreates(terms) == Append(terms, SudoTerminalName)

\* vscode.window.terminals after getSudoTerminal()
getSudoTerminal(terms) ==
    IF \E i \in 1..Len(terms) : terms[i] = SudoTerminalName
    THEN terms
    ELSE Append(terms, SudoTerminalName)

\* Array.prototype.includes
includes(cmds, c) == \E i \in 1..Len(cmds) : cmds[i] = c

log(m, kind, command) ==
    [m EXCEPT !.events = Append(@, Event(kind, m.idx, command))]

\* the loop moves to the next step
nextStep(m) == [m EXCEPT !.idx = @ + 1, !.pc = "loop", !.child = NoChild]

\* an ALREADY_MET branch that falls through to the counters
skipStepCounted(m) ==
    nextStep([m EXCEPT !.result.stepsAttempted = @ + 1,
                       !.result.stepsSucceeded = @ + 1])

\* the ALREADY_MET branch (l.779-785)
skipStep(m) == nextStep(m)

\* l.787-789
attemptStep(m) ==
    log([m EXCEPT !.result.stepsAttempted = @ + 1], "attempt", NoCommand)

\* a catch block that records the failure and rethrows (halting the plan)
catchStepRethrows(m, step, msg) ==
    [log(m, "failed", NoCommand) EXCEPT !.result.stepsFailed = @ + 1,
              !.result.failedStepsInfo = Append(@, FailedStepInfo(step, msg)),
              !.child = NoChild,
              !.pc = "raised"]

\* the catch block of the step (l.828-845)
catchStep(m, step, msg) ==
    nextStep([log(m, "failed", NoCommand) EXCEPT !.result.stepsFailed = @ + 1,
                       !.result.failedStepsInfo = Append(@, FailedStepInfo(step, msg))])

\* installReturned without the else: a handed-off step is counted as
\* succeeded as well
installReturnedCountsBoth(m, step, requiresSudo, command) ==
    IF ~requiresSudo
    THEN nextStep([log(m, "succeeded", NoCommand) EXCEPT !.result.stepsSucceeded = @ + 1])
    ELSE LET push == /\ command # NoCommand
                     /\ (step.action = "INSTALL"
                           \/ ~includes(m.result.manualSudoCommands, command))
         IN  nextStep([log(m, "skippedSudo", NoCommand) EXCEPT
                                !.result.stepsSkippedSudo = @ + 1,
                                !.result.stepsSucceeded = @ + 1,
                                !.result.manualSudoCommands =
                                    IF push THEN Append(@, command) ELSE @])

\* installDependency returned {requiresSudo, command} (l.798-803, l.815-822)
installReturned(m, step, requiresSudo, command) ==
    IF ~requiresSudo
    THEN nextStep([log(m, "succeeded", NoCommand) EXCEPT !.result.stepsSucceeded = @ + 1])
    ELSE LET push == /\ command # NoCommand
                     /\ (step.action = "INSTALL"
                           \/ ~includes(m.result.manualSudoCommands, command))
         IN  nextStep([log(m, "skippedSudo", NoCommand) EXCEPT
                                !.result.stepsSkippedSudo = @ + 1,
                                !.result.manualSudoCommands =
                                    IF push THEN Append(@, command) ELSE @])

\* enterInstall that starts the child process and does not await it
enterInstallNoAwait(m, step, h, spawnThrows) ==
    LET r == installDependency(step, h)
        m1 == IF r.wingetChecked THEN log(m, "wingetCheck", NoCommand) ELSE m
    IN  CASE r.kind = "throw" -> catchStep(m1, step, r.message)
          [] r.kind = "manual" -> installReturned(m1, step, TRUE, r.command)
          [] r.kind = "sudo" ->
                [log(m1, "sendText", r.command) EXCEPT
                    !.terminals = getSudoTerminal(@), !.pc = "installAck"]
          [] r.kind = "spawn" ->
                IF spawnThrows
                THEN catchStep(log(m1, "spawnThrew", r.command), step, "spawn failed")
                ELSE installReturned(log(m1, "spawn", r.command), step, FALSE, NoCommand)

\* await installDependency(step, outputChannel), up to its first await
enterInstall(m, step, h, spawnThrows) ==
    LET r == installDependency(step, h)
        m1 == IF r.wingetChecked THEN log(m, "wingetCheck", NoCommand) ELSE m
    IN  CASE r.kind = "throw" -> catchStep(m1, step, r.message)
          [] r.kind = "manual" -> installReturned(m1, step, TRUE, r.command)
          [] r.kind = "sudo" ->
                [log(m1, "sendText", r.command) EXCEPT
                    !.terminals = getSudoTerminal(@), !.pc = "installAck"]
          [] r.kind = "spawn" ->
                IF spawnThrows
                THEN catchStep(log(m1, "spawnThrew", r.command), step, "spawn failed")
                ELSE [log(m1, "spawn", r.command) EXCEPT
                        !.child = RunningChild(r.command), !.pc = "installChild"]

\* uninstallDependency returned {requiresSudo, command} (l.808-814)
uninstallReturned(m, step, h, requiresSudo, command, spawnThrows) ==
    LET push == /\ requiresSudo /\ command # NoCommand
                /\ ~includes(m.result.manualSudoCommands, command)
        m1 == [m EXCEPT !.child = NoChild,
                        !.result.manualSudoCommands =
                            IF push THEN Append(@, command) ELSE @]
    IN  enterInstall(m1, step, h, spawnThrows)

\* enterUninstall without the try/catch of l.749-755: a failure to start the
\* uninstall process reaches the catch block of the step
enterUninstallSpawnFailureEscapes(m, step, h, uninstallSpawnThrows, spawnThrows) ==
    LET r == uninstallDependency(step, h)
    IN  CASE r.kind = "skip" ->
                uninstallReturned(m, step, h, FALSE, NoCommand, spawnThrows)
          [] r.kind = "manual" ->
                uninstallReturned(m, step, h, TRUE, r.command, spawnThrows)
          [] r.kind = "sudo" ->
                [log(m, "sendText", r.command) EXCEPT
                    !.terminals = getSudoTerminal(@), !.pc = "uninstallAck"]
          [] r.kind = "spawn" ->
                IF uninstallSpawnThrows
                THEN catchStep(log(m, "spawnThrew", r.command), step, "spawn failed")
                ELSE [log(m, "spawn", r.command) EXCEPT
                        !.child = RunningChild(r.command), !.pc = "uninstallChild"]

\* enterUninstall that sends the elevated command and goes on to the install
\* without the modal of l.742-745
enterUninstallNoModal(m, step, h, uninstallSpawnThrows, spawnThrows) ==
    LET r == uninstallDependency(step, h)
    IN  CASE r.kind = "skip" ->
                uninstallReturned(m, step, h, FALSE, NoCommand, spawnThrows)
          [] r.kind = "manual" ->
                uninstallReturned(m, step, h, TRUE, r.command, spawnThrows)
          [] r.kind = "sudo" ->
                uninstallReturned([log(m, "sendText", r.command) EXCEPT
                                      !.terminals = getSudoTerminal(@)],
                                  step, h, TRUE, r.command, spawnThrows)
          [] r.kind = "spawn" ->
                IF uninstallSpawnThrows
                THEN uninstallReturned(log(m, "spawnThrew", r.command), step, h,
                                       FALSE, NoCommand, spawnThrows)
                ELSE [log(m, "spawn", r.command) EXCEPT
                        !.child = RunningChild(r.command), !.pc = "uninstallChild"]

\* await uninstallDependency(step, outputChannel), up to its first await;
\* a spawn that throws is caught inside uninstallDependency (l.752-755)
enterUninstall(m, step, h, uninstallSpawnThrows, spawnThrows) ==
    LET r == uninstallDependency(step, h)
    IN  CASE r.kind = "skip" ->
                uninstallReturned(m, step, h, FALSE, NoCommand, spawnThrows)
          [] r.kind = "manual" ->
                uninstallReturned(m, step, h, TRUE, r.command, spawnThrows)
          [] r.kind = "sudo" ->
                [log(m, "sendText", r.command) EXCEPT
                    !.terminals = getSudoTerminal(@), !.pc = "uninstallAck"]
          [] r.kind = "spawn" ->
                IF uninstallSpawnThrows
                THEN uninstallReturned(log(m, "spawnThrew", r.command), step, h,
                                       FALSE, NoCommand, spawnThrows)
                ELSE [log(m, "spawn", r.command) EXCEPT
                        !.child = RunningChild(r.command), !.pc = "uninstallChild"]

\* a 'close' handler that resolves whatever the exit code is
installClosedIgnoresCode(m, step, code) ==
    installReturned(log(m, IF code = 0 THEN "exit0" ELSE "exitNonZero", m.child.command),
                    step, FALSE, NoCommand)

\* child.on('close') of the install process (l.512-521), the awaiting
\* installDependency (l.661-666) and executePlan (l.797-803, l.828-845)
installClosed(m, step, code) ==
    IF code = 0
    THEN installReturned(log(m, "exit0", m.child.command), step, FALSE, NoCommand)
    ELSE catchStep(log(m, "exitNonZero", m.child.command), step,
                   "process exited with code")

\* l.848-853
finish(m) ==
    [m EXCEPT !.result.manualSudoCommands =
                  SelectSeq(@, LAMBDA cmd : ~startsWithManual(cmd)),
              !.pc = "returned"]

-----------------------------------------------------------------------------
(* The Executor as a state machine *)

Cur ==
    [result |-> result, terminals |-> terminals, events |-> events, pc |-> pc,
     idx |-> idx, child |-> child, lingering |-> lingering]

Commit(m) ==
    /\ result' = m.result
    /\ terminals' = m.terminals
    /\ events' = m.events
    /\ pc' = m.pc
    /\ idx' = m.idx
    /\ child' = m.child
    /\ lingering' = m.lingering

PlannerIdle ==
    /\ requirements = <<>>
    /\ probeOutcomes = <<>>
    /\ auditResults = <<>>
    /\ auditThrew = FALSE
    /\ actionPlan = <<>>
    /\ secondPlan = <<>>
    /\ planPc = "idle"

\* types.ts l.128-134; an absent partialSuccess is falsy, absent lists are
\* written <<>>
SetupResult(success, partialSuccess, message, manualStepsRequired, failedSteps) ==
    [success |-> success, partialSuccess |-> partialSuccess, message |-> message,
     manualStepsRequired |-> manualStepsRequired, failedSteps |-> failedSteps]

NoSetupResult == SetupResult(FALSE, FALSE, "", <<>>, <<>>)

\* token.isCancellationRequested, with where the Orchestrator was (at) and
\* the plan step executePlan was at (step) when cancellation was requested
NoToken == [isCancellationRequested |-> FALSE, at |-> "never", step |-> 0]

SetupIdle ==
    /\ setupPc = "idle"
    /\ token = NoToken
    /\ setupResult = NoSetupResult
    /\ phases = <<>>

\* types.ts l.103-107; an absent missing list is written <<>>
CheckResult(ok, details, missing) == [ok |-> ok, details |-> details, missing |-> missing]

NoCheckResult == CheckResult(FALSE, "", <<>>)

OtherIdle ==
    /\ detected = "undetected"
    /\ checkResult = NoCheckResult
    /\ runs = <<>>

ExecIdle ==
    /\ host = Host("linux", {}, {}, FALSE)
    /\ plan = <<>>
    /\ pc = "idle"
    /\ idx = 1
    /\ result = ExecutionResult(0)
    /\ terminals = <<>>
    /\ events = <<>>
    /\ child = NoChild
    /\ lingering = 0

\* Windows with and without winget, macOS, a platform without catalog keys,
\* and Linux hosts: no manager, each manager alone (in a well-known
\* directory or only on PATH), and dnf in /usr/bin beside apt-get in /bin
SampleHosts ==
    { Host("win32", {}, {}, TRUE),
      Host("win32", {}, {}, FALSE),
      Host("darwin", {}, {}, FALSE),
      Host("freebsd", {}, {}, FALSE),
      Host("linux", {}, {}, FALSE),
      Host("linux", {<<"/usr/bin/", "apt-get">>}, {"apt-get"}, FALSE),
      Host("linux", {<<"/usr/bin/", "dnf">>}, {}, FALSE),
      Host("linux", {}, {"pacman"}, FALSE),
      Host("linux", {<<"/usr/sbin/", "zypper">>}, {"zypper"}, FALSE),
      Host("linux", {<<"/usr/bin/", "dnf">>, <<"/bin/", "apt-get">>}, {}, FALSE) }

PlanDependencies ==
    { DependencyRequirement("git", "Git", GIT_MIN),
      DependencyRequirement("mongodb", "MongoDB Community Server", AbsentRange),
      DependencyRequirement("docker", "Docker Engine/Desktop", AbsentRange),
      DependencyRequirement("mytool", "My Tool", AbsentRange) }

PlanSteps ==
    {ActionStep(d, a, "reason") :
        d \in PlanDependencies, a \in {"INSTALL", "REINSTALL", "ALREADY_MET"}}

InitExec ==
    /\ PlannerIdle
    /\ SetupIdle
    /\ OtherIdle
    /\ host \in SampleHosts
    /\ plan \in BoundedSeq(PlanSteps, MaxPlan)
    /\ pc = "loop"
    /\ idx = 1
    /\ result = ExecutionResult(Len(plan))
    /\ terminals \in {<<>>, <<SudoTerminalName>>}
    /\ events = <<>>
    /\ child = NoChild
    /\ lingering = 0

AtStep(action) == pc = "loop" /\ idx <= Len(plan) /\ plan[idx].action = action

\* a loop iteration on an ALREADY_MET step
SkipAlreadyMet ==
    /\ AtStep("ALREADY_MET")
    /\ Commit(skipStep(Cur))
    /\ UNCHANGED <<plannerVars, setupVars, otherVars, host, plan>>

\* a loop iteration on an INSTALL step, up to its first await
BeginInstall ==
    /\ AtStep("INSTALL")
    /\ \E spawnThrows \in BOOLEAN :
          Commit(enterInstall(attemptStep(Cur), plan[idx], host, spawnThrows))
    /\ UNCHANGED <<plannerVars, setupVars, otherVars, host, plan>>

\* a loop iteration on a REINSTALL step, up to its first await
BeginReinstall ==
    /\ AtStep("REINSTALL")
    /\ \E uninstallSpawnThrows \in BOOLEAN, spawnThrows \in BOOLEAN :
          Commit(enterUninstall(attemptStep(Cur), plan[idx], host,
                                uninstallSpawnThrows, spawnThrows))
    /\ UNCHANGED <<plannerVars, setupVars, otherVars, host, plan>>

\* the user closes the modal shown after the uninstall command was sent
AcknowledgeUninstall ==
    /\ pc = "uninstallAck"
    /\ \E spawnThrows \in BOOLEAN :
          Commit(uninstallReturned(log(Cur, "ack", NoCommand), plan[idx], host, TRUE,
                                   uninstallDependency(plan[idx], host).command,
                                   spawnThrows))
    /\ UNCHANGED <<plannerVars, setupVars, otherVars, host, plan>>

\* the user closes the modal shown after the install command was sent
AcknowledgeInstall ==
    /\ pc = "installAck"
    /\ Commit(installReturned(log(Cur, "ack", NoCommand), plan[idx], TRUE,
                              installDependency(plan[idx], host).command))
    /\ UNCHANGED <<plannerVars, setupVars, otherVars, host, plan>>

\* child.on('close') of the awaited uninstall process: resolve, or reject
\* caught by uninstallDependency
UninstallChildClose ==
    /\ pc = "uninstallChild" /\ child.state = "running"
    /\ \E code \in {0, 1}, spawnThrows \in BOOLEAN :
          Commit(uninstallReturned(log(Cur, IF code = 0 THEN "exit0" ELSE "exitNonZero",
                                       child.command), plan[idx], host,
                                   FALSE, NoCommand, spawnThrows))
    /\ UNCHANGED <<plannerVars, setupVars, otherVars, host, plan>>

\* child.on('close') of the awaited install process
InstallChildClose ==
    /\ pc = "installChild" /\ child.state = "running"
    /\ \E code \in {0, 1} : Commit(installClosed(Cur, plan[idx], code))
    /\ UNCHANGED <<plannerVars, setupVars, otherVars, host, plan>>

\* an 'error' handler that logs and does not reject: the promise stays
\* pending although the process will emit nothing more
ChildErrorNoReject ==
    /\ pc \in {"uninstallChild", "installChild"} /\ child.state = "running"
    /\ Commit([log(Cur, "error", child.command) EXCEPT
                  !.child = [state |-> "errored", command |-> child.command]])
    /\ UNCHANGED <<plannerVars, setupVars, otherVars, host, plan>>

\* child.on('error') of the awaited process: the promise is rejected; the
\* process may still emit 'close' later
ChildError ==
    /\ pc \in {"uninstallChild", "installChild"} /\ child.state = "running"
    /\ LET m == [log(Cur, "error", child.command) EXCEPT !.lingering = @ + 1]
       IN  IF pc = "uninstallChild"
           THEN \E spawnThrows \in BOOLEAN :
                   Commit(uninstallReturned(m, plan[idx], host, FALSE, NoCommand,
                                            spawnThrows))
           ELSE Commit(catchStep(m, plan[idx], "Failed to start process"))
    /\ UNCHANGED <<plannerVars, setupVars, otherVars, host, plan>>

\* 'close' of a process whose promise is already settled: resolve and reject
\* have no effect any more
LingeringClose ==
    /\ lingering > 0
    /\ lingering' = lingering - 1
    /\ UNCHANGED <<plannerVars, setupVars, otherVars, host, plan, pc, idx, result, terminals, events, child>>

\* the loop is over: filter the manual messages and return the result
Return ==
    /\ pc = "loop" /\ idx > Len(plan)
    /\ Commit(finish(Cur))
    /\ UNCHANGED <<plannerVars, setupVars, otherVars, host, plan>>

NextExec ==
    \/ SkipAlreadyMet
    \/ BeginInstall
    \/ BeginReinstall
    \/ AcknowledgeUninstall
    \/ AcknowledgeInstall
    \/ UninstallChildClose
    \/ InstallChildClose
    \/ ChildError
    \/ LingeringClose
    \/ Return

SpecExec == InitExec /\ [][NextExec]_vars

\* executePlan under the scheduling the code relies on: the event loop runs
\* the function whenever it can go on, every awaited child process emits
\* 'close' or 'error', and the user closes every modal.
LoopRuns == SkipAlreadyMet \/ BeginInstall \/ BeginReinstall \/ Return

ChildSettles == UninstallChildClose \/ InstallChildClose \/ ChildError

ModalAcknowledged == AcknowledgeUninstall \/ AcknowledgeInstall

\* hosts and steps for the runs checked for termination: a spawning and
\* an elevating platform, dependencies with and without an automated path
TerminationHosts ==
    { Host("darwin", {}, {}, FALSE),
      Host("linux", {<<"/usr/bin/", "apt-get">>}, {"apt-get"}, FALSE) }

TerminationSteps ==
    {ActionStep(d, a, "reason") :
        d \in { DependencyRequirement("git", "Git", GIT_MIN),
                DependencyRequirement("mongodb", "MongoDB Community Server", AbsentRange) },
        a \in {"INSTALL", "REINSTALL", "ALREADY_MET"}}

InitTermination ==
    /\ PlannerIdle
    /\ SetupIdle
    /\ OtherIdle
    /\ host \in TerminationHosts
    /\ plan \in BoundedSeq(TerminationSteps, MaxPlan)
    /\ pc = "loop"
    /\ idx = 1
    /\ result = ExecutionResult(Len(plan))
    /\ terminals = <<>>
    /\ events = <<>>
    /\ child = NoChild
    /\ lingering = 0

FairSpecExec ==
    /\ InitTermination /\ [][NextExec]_vars
    /\ WF_vars(LoopRuns)
    /\ WF_vars(ChildSettles)
    /\ WF_vars(ModalAcknowledged)

-----------------------------------------------------------------------------
(* The Auditor and the Planner as state machines *)

\* AuditResult values a caller can hand to createActionPlan
PlannerRequirements ==
    { DependencyRequirement("git", "Git", GIT_MIN),
      DependencyRequirement("docker", "Docker Engine/Desktop", AbsentRange),
      DependencyRequirement("mytool", "My Tool", Range("^", Version(1, 9, 0))),
      DependencyRequirement("mytool", "My Tool", InvalidRange) }

SampleInstalled ==
    { AbsentVersion,
      RawVersion(<<Word("garbage-no-version")>>),
      SemVer(Version(1, 9, 0)),
      SemVer(Version(2, 0, 0)),
      SemVer(Version(2, 5, 0)) }

AuditResultInputs ==
    {AuditResult(d, b, iv, AbsentNote) :
        d \in PlannerRequirements, b \in BOOLEAN, iv \in SampleInstalled}

InitPlanner ==
    /\ ExecIdle
    /\ SetupIdle
    /\ OtherIdle
    /\ requirements = <<>>
    /\ probeOutcomes = <<>>
    /\ auditResults \in BoundedSeq(AuditResultInputs, MaxAudit)
    /\ auditThrew = FALSE
    /\ actionPlan = <<>>
    /\ secondPlan = <<>>
    /\ planPc = "audited"

InitPipeline ==
    /\ ExecIdle
    /\ SetupIdle
    /\ OtherIdle
    /\ requirements \in BoundedSeq(SampleRequirements, MaxReqs)
    /\ probeOutcomes = <<>>
    /\ auditResults = <<>>
    /\ auditThrew = FALSE
    /\ actionPlan = <<>>
    /\ secondPlan = <<>>
    /\ planPc = "start"

\* const auditResults = runAudit(requirements)
RunAudit ==
    /\ planPc = "start"
    /\ \E probes \in [1..Len(requirements) -> ProbeOutcomes] :
          LET r == runAudit(requirements, probes)
          IN  /\ probeOutcomes' = probes
              /\ auditResults' = r.results
              /\ auditThrew' = r.threw
              /\ planPc' = IF r.threw THEN "idle" ELSE "audited"
    /\ UNCHANGED <<requirements, actionPlan, secondPlan, execVars, setupVars, otherVars>>

\* const actionPlan = createActionPlan(auditResults)
PlanFirst ==
    /\ planPc = "audited"
    /\ actionPlan' = createActionPlan(auditResults)
    /\ planPc' = "planned"
    /\ UNCHANGED <<requirements, probeOutcomes, auditResults, auditThrew, secondPlan, execVars, setupVars, otherVars>>

\* createActionPlan called again on the same array
PlanAgain ==
    /\ planPc = "planned"
    /\ secondPlan' = createActionPlan(auditResults)
    /\ planPc' = "replanned"
    /\ UNCHANGED <<requirements, probeOutcomes, auditResults, auditThrew, actionPlan, execVars, setupVars, otherVars>>

NextPlanner == PlanFirst \/ PlanAgain

NextPipeline == RunAudit \/ PlanFirst \/ PlanAgain

SpecPlanner == InitPlanner /\ [][NextPlanner]_vars

SpecPipeline == InitPipeline /\ [][NextPipeline]_vars

-----------------------------------------------------------------------------
(* Orchestrator.runFullValidationAndSetup (orchestrator.ts l.110-251).  The *)
(* scaffold and final-setup collaborators are promises that resolve with    *)
(* success true ("ok") or false ("fail"), or reject ("throw").              *)

CancelledMessage == "Operation cancelled."

\* the catch block (l.225-242); executionResult is null before execution
caught(message, failedSteps) == SetupResult(FALSE, FALSE, message, <<>>, failedSteps)

\* what running the function to its first await leaves behind (l.119-150):
\* `to` is where it goes next
Begun(to, res, probes, audit, steps, er) ==
    [to |-> to, setupResult |-> res, probeOutcomes |-> probes,
     auditResults |-> audit, actionPlan |-> steps, executionResult |-> er]

\* l.119-150: read the configuration, audit, first checkpoint, plan
beginSetup(reqs, configOk, probes, tok) ==
    IF ~configOk
    THEN Begun("done", SetupResult(FALSE, FALSE, "Invalid or missing .devsetup.json.",
                                   <<>>, <<>>),
               <<>>, <<>>, <<>>, ExecutionResult(0))
    ELSE IF Len(reqs) = 0
    THEN Begun("executed", NoSetupResult, <<>>, <<>>, <<>>, ExecutionResult(0))
    ELSE LET audit == runAudit(reqs, probes)
             actions == createActionPlan(audit.results)
             stepsToDo == SelectSeq(actions, LAMBDA step : step.action # "ALREADY_MET")
         IN  IF audit.threw
             THEN Begun("done", caught("runAudit threw", <<>>),
                        probes, audit.results, <<>>, ExecutionResult(0))
             ELSE IF tok.isCancellationRequested
             THEN Begun("done", caught(CancelledMessage, <<>>),
                        probes, audit.results, <<>>, ExecutionResult(0))
             ELSE IF Len(stepsToDo) > 0
             THEN Begun("executing", NoSetupResult, probes, audit.results, actions,
                        ExecutionResult(Len(actions)))
             ELSE Begun("executed", NoSetupResult, probes, audit.results, actions,
                        ExecutionResult(Len(actions)))

\* where the function goes after a phase: `to`, the result if it returns, and
\* the collaborators started so far
Went(to, res, started) == [to |-> to, setupResult |-> res, phases |-> started]

\* afterExecution with the abort on failed steps removed
afterExecutionIgnoresFailures(tok, er, started) ==
    IF tok.isCancellationRequested
    THEN Went("done", caught(CancelledMessage, er.failedStepsInfo), started)
    ELSE Went("scaffolding", NoSetupResult, Append(started, <<"scaffold", "started">>))

\* afterExecution without the checkpoint of l.152
afterExecutionNoCheckpoint(tok, er, started) ==
    IF er.stepsFailed > 0
    THEN Went("done", SetupResult(FALSE, FALSE, "Dependency installation failed",
                                  <<>>, er.failedStepsInfo), started)
    ELSE Went("scaffolding", NoSetupResult, Append(started, <<"scaffold", "started">>))

\* l.152-175: second checkpoint, abort on failed steps, start the scaffold
afterExecution(tok, er, started) ==
    IF tok.isCancellationRequested
    THEN Went("done", caught(CancelledMessage, er.failedStepsInfo), started)
    ELSE IF er.stepsFailed > 0
    THEN Went("done", SetupResult(FALSE, FALSE, "Dependency installation failed",
                                  <<>>, er.failedStepsInfo), started)
    ELSE Went("scaffolding", NoSetupResult, Append(started, <<"scaffold", "started">>))

\* l.178-190: scaffold result, third checkpoint, start the final setup
afterScaffold(tok, er, outcome, started) ==
    LET settled == Append(started, <<"scaffold", outcome>>)
    IN  IF outcome = "throw"
        THEN Went("done", caught("scaffold threw", er.failedStepsInfo), settled)
        ELSE IF outcome = "fail"
        THEN Went("done", SetupResult(FALSE, FALSE, "Scaffolding failed", <<>>,
                                      er.failedStepsInfo), settled)
        ELSE IF tok.isCancellationRequested
        THEN Went("done", caught(CancelledMessage, er.failedStepsInfo), settled)
        ELSE Went("finalSetup", NoSetupResult, Append(settled, <<"finalSetup", "started">>))

\* afterFinalSetup that reports full success whenever nothing failed
afterFinalSetupAlwaysFull(er, outcome, started) ==
    LET settled == Append(started, <<"finalSetup", outcome>>) IN
    IF outcome = "throw"
    THEN Went("done", caught("final setup threw", er.failedStepsInfo), settled)
    ELSE IF outcome = "fail"
    THEN Went("done", SetupResult(FALSE, FALSE, "Final setup failed", <<>>,
                                  er.failedStepsInfo), settled)
    ELSE Went("done", SetupResult(TRUE, FALSE, "Setup finished successfully.",
                                  <<>>, <<>>), settled)

\* l.193-222: final-setup result, then partial or full success
afterFinalSetup(er, outcome, started) ==
    LET settled == Append(started, <<"finalSetup", outcome>>) IN
    IF outcome = "throw"
    THEN Went("done", caught("final setup threw", er.failedStepsInfo), settled)
    ELSE IF outcome = "fail"
    THEN Went("done", SetupResult(FALSE, FALSE, "Final setup failed", <<>>,
                                  er.failedStepsInfo), settled)
    ELSE IF er.stepsSkippedSudo > 0
    THEN Went("done", SetupResult(FALSE, TRUE, "Setup partially complete",
                                  er.manualSudoCommands, <<>>), settled)
    ELSE Went("done", SetupResult(TRUE, FALSE, "Setup finished successfully.",
                                  <<>>, <<>>), settled)

SetupRequirements ==
    { DependencyRequirement("git", "Git", GIT_MIN),
      DependencyRequirement("docker", "Docker Engine/Desktop", AbsentRange),
      DependencyRequirement("mytool", "My Tool", AbsentRange) }

\* probe: tool absent (INSTALL), or present with unparseable output
\* (REINSTALL under a required range, ALREADY_MET without one)
SetupProbes ==
    { ProbeOutcome("spawnfail", <<>>, "ENOENT"),
      ProbeOutcome("zero", <<Word("garbage-no-version"), NL>>, "") }

SetupHosts ==
    { Host("darwin", {}, {}, FALSE),
      Host("linux", {<<"/usr/bin/", "apt-get">>}, {"apt-get"}, FALSE) }

CollaboratorOutcomes == {"ok", "fail", "throw"}

InitSetup ==
    /\ requirements \in BoundedSeq(SetupRequirements, MaxReqs)
    /\ probeOutcomes = <<>>
    /\ auditResults = <<>>
    /\ auditThrew = FALSE
    /\ actionPlan = <<>>
    /\ secondPlan = <<>>
    /\ planPc = "idle"
    /\ host \in SetupHosts
    /\ plan = <<>>
    /\ pc = "idle"
    /\ idx = 1
    /\ result = ExecutionResult(0)
    /\ terminals = <<>>
    /\ events = <<>>
    /\ child = NoChild
    /\ lingering = 0
    /\ OtherIdle
    /\ setupPc = "start"
    /\ token = NoToken
    /\ setupResult = NoSetupResult
    /\ phases = <<>>

\* the user cancels the progress notification
RequestCancel ==
    /\ setupPc \notin {"idle", "done"}
    /\ ~token.isCancellationRequested
    /\ token' = [isCancellationRequested |-> TRUE, at |-> setupPc,
                 step |-> IF setupPc = "executing" THEN idx ELSE 0]
    /\ UNCHANGED <<plannerVars, execVars, otherVars, setupPc, setupResult, phases>>

\* the call, up to `await executePlan(...)` or to the second checkpoint
SetupBegin ==
    /\ setupPc = "start"
    /\ \E configOk \in BOOLEAN, probes \in [1..Len(requirements) -> SetupProbes] :
          \E b \in {beginSetup(requirements, configOk, probes, token)} :
              /\ setupPc' = b.to
              /\ setupResult' = b.setupResult
              /\ probeOutcomes' = b.probeOutcomes
              /\ auditResults' = b.auditResults
              /\ actionPlan' = b.actionPlan
              /\ result' = b.executionResult
              /\ plan' = IF b.to = "executing" THEN b.actionPlan ELSE plan
              /\ pc' = IF b.to = "executing" THEN "loop" ELSE pc
    /\ UNCHANGED <<requirements, auditThrew, secondPlan, planPc, host, idx, terminals,
                   events, child, lingering, token, phases, otherVars>>

\* executePlan returned (or was not needed): l.152-175
AfterExecute ==
    /\ \/ setupPc = "executing" /\ pc = "returned"
       \/ setupPc = "executed"
    /\ LET w == afterExecution(token, result, phases)
       IN  /\ setupPc' = w.to
           /\ setupResult' = w.setupResult
           /\ phases' = w.phases
    /\ UNCHANGED <<plannerVars, execVars, otherVars, token>>

\* the scaffold collaborator settled
ScaffoldSettled ==
    /\ setupPc = "scaffolding"
    /\ \E outcome \in CollaboratorOutcomes :
          LET w == afterScaffold(token, result, outcome, phases)
          IN  /\ setupPc' = w.to
              /\ setupResult' = w.setupResult
              /\ phases' = w.phases
    /\ UNCHANGED <<plannerVars, execVars, otherVars, token>>

\* the final-setup collaborator settled
FinalSetupSettled ==
    /\ setupPc = "finalSetup"
    /\ \E outcome \in CollaboratorOutcomes :
          LET w == afterFinalSetup(result, outcome, phases)
          IN  /\ setupPc' = w.to
              /\ setupResult' = w.setupResult
              /\ phases' = w.phases
    /\ UNCHANGED <<plannerVars, execVars, otherVars, token>>

NextSetup ==
    \/ RequestCancel
    \/ SetupBegin
    \/ NextExec
    \/ AfterExecute
    \/ ScaffoldSettled
    \/ FinalSetupSettled

SpecSetup == InitSetup /\ [][NextSetup]_vars

-----------------------------------------------------------------------------
(* The pipeline run twice (orchestrator.ts l.129-149): audit, plan and      *)
(* execute, then audit and plan again on the machine the first run left.    *)
(* planPc: "start", "executing" | "executed", "rerun".                      *)

\* what the probe of an installed tool prints: a version that satisfies
\* GIT_MIN, one that does not, and text without a version
RerunOutputs ==
    { <<Word("git"), Word("version"), Num(Version(2, 5, 0), FALSE, FALSE)>>,
      <<Word("git"), Word("version"), Num(Version(1, 9, 0), FALSE, FALSE)>>,
      <<Word("garbage-no-version"), NL>> }

Absent == ProbeOutcome("spawnfail", <<>>, "ENOENT")

RerunProbes == {Absent} \cup {ProbeOutcome("zero", o, "") : o \in RerunOutputs}

\* requirement lists naming each tool once
DistinctRequirements ==
    {reqs \in BoundedSeq(SetupRequirements, MaxReqs) :
        \A i, j \in DOMAIN reqs : i # j => reqs[i].id # reqs[j].id}

\* the probe of requirement i after the first run: unchanged where nothing
\* was run; a tool installed by the run prints any of the outputs; a failed
\* or handed-off step may also have left the tool as it was, or absent
PossibleAfter(i, probe) ==
    IF actionPlan[i].action = "ALREADY_MET"
    THEN probe = probeOutcomes[i]
    ELSE IF \E e \in DOMAIN events : events[e] = Event("succeeded", i, NoCommand)
    THEN probe.exit = "zero"
    ELSE TRUE

InitRerun ==
    /\ requirements \in DistinctRequirements
    /\ probeOutcomes = <<>>
    /\ auditResults = <<>>
    /\ auditThrew = FALSE
    /\ actionPlan = <<>>
    /\ secondPlan = <<>>
    /\ planPc = "start"
    /\ host \in SetupHosts
    /\ plan = <<>>
    /\ pc = "idle"
    /\ idx = 1
    /\ result = ExecutionResult(0)
    /\ terminals = <<>>
    /\ events = <<>>
    /\ child = NoChild
    /\ lingering = 0
    /\ SetupIdle
    /\ OtherIdle

\* first run: audit and plan, up to `await executePlan(...)`
FirstRun ==
    /\ planPc = "start"
    /\ \E probes \in [1..Len(requirements) -> RerunProbes] :
          \E b \in {beginSetup(requirements, TRUE, probes, NoToken)} :
              /\ planPc' = b.to
              /\ probeOutcomes' = b.probeOutcomes
              /\ auditResults' = b.auditResults
              /\ actionPlan' = b.actionPlan
              /\ result' = b.executionResult
              /\ plan' = b.actionPlan
              /\ pc' = IF b.to = "executing" THEN "loop" ELSE pc
    /\ UNCHANGED <<requirements, auditThrew, secondPlan, host, idx, terminals,
                   events, child, lingering, setupVars, otherVars>>

\* second run: audit and plan again
SecondRun ==
    /\ \/ planPc = "executing" /\ pc = "returned"
       \/ planPc = "executed"
    /\ \E probes \in [1..Len(requirements) -> RerunProbes] :
          /\ \A i \in 1..Len(requirements) : PossibleAfter(i, probes[i])
          /\ \E b \in {beginSetup(requirements, TRUE, probes, NoToken)} :
                /\ probeOutcomes' = b.probeOutcomes
                /\ auditResults' = b.auditResults
                /\ secondPlan' = b.actionPlan
    /\ planPc' = "rerun"
    /\ UNCHANGED <<requirements, auditThrew, actionPlan, execVars, setupVars, otherVars>>

NextRerun == FirstRun \/ NextExec \/ SecondRun

SpecRerun == InitRerun /\ [][NextRerun]_vars

-----------------------------------------------------------------------------
(* detectLinuxPackageManager on its own: Linux hosts with up to MaxFiles    *)
(* manager binaries under the well-known directories and up to MaxFiles     *)
(* manager binaries that `which` finds.                                     *)

\* most manager binaries on disk, and most on PATH, of a sampled host
MaxFiles == 2

ManagerBinaries == {"apt-get", "dnf", "pacman", "zypper"}

WellKnownFiles == {<<pathsToCheck[i], b>> : i \in DOMAIN pathsToCheck, b \in ManagerBinaries}

DetectHosts ==
    {Host("linux", f, o, FALSE) :
        f \in {x \in SUBSET WellKnownFiles : Cardinality(x) <= MaxFiles},
        o \in {x \in SUBSET ManagerBinaries : Cardinality(x) <= MaxFiles}}

InitDetect ==
    /\ PlannerIdle
    /\ SetupIdle
    /\ host \in DetectHosts
    /\ plan = <<>>
    /\ pc = "idle"
    /\ idx = 1
    /\ result = ExecutionResult(0)
    /\ terminals = <<>>
    /\ events = <<>>
    /\ child = NoChild
    /\ lingering = 0
    /\ detected = "undetected"
    /\ checkResult = NoCheckResult
    /\ runs = <<>>

\* const manager = detectLinuxPackageManager()
Detect ==
    /\ detected = "undetected"
    /\ detected' = detectLinuxPackageManager(host)
    /\ UNCHANGED <<plannerVars, execVars, setupVars, checkResult, runs>>

NextDetect == Detect

SpecDetect == InitDetect /\ [][NextDetect]_vars

-----------------------------------------------------------------------------
(* Orchestrator.runCheckRequirements (orchestrator.ts l.62-103): the        *)
(* audit-only check.  details is written as the kind of summary it holds.   *)

\* what the for loop of l.79-91 collects: the names pushed to missing, to
\* incompatible and to foundButCantParse
Collected(missing, incompatible, foundButCantParse) ==
    [missing |-> missing, incompatible |-> incompatible,
     foundButCantParse |-> foundButCantParse]

\* one iteration of the loop that never reports an unparsed version
collectOneIgnoresUnparsed(c, r) ==
    IF ~r.isInstalled
    THEN [c EXCEPT !.missing = Append(@, r.dependency.name)]
    ELSE IF Truthy(r.dependency.requiredVersion)
    THEN IF Truthy(r.installedVersion) /\ valid(r.installedVersion)
         THEN IF ~satisfies(r.installedVersion, r.dependency.requiredVersion)
              THEN [c EXCEPT !.incompatible = Append(@, r.dependency.name)]
              ELSE c
         ELSE c
    ELSE c

\* one iteration of the loop (l.80-90)
collectOne(c, r) ==
    IF ~r.isInstalled
    THEN [c EXCEPT !.missing = Append(@, r.dependency.name)]
    ELSE IF Truthy(r.dependency.requiredVersion)
    THEN IF Truthy(r.installedVersion) /\ valid(r.installedVersion)
         THEN IF ~satisfies(r.installedVersion, r.dependency.requiredVersion)
              THEN [c EXCEPT !.incompatible = Append(@, r.dependency.name)]
              ELSE c
         ELSE [c EXCEPT !.foundButCantParse = Append(@, r.dependency.name)]
    ELSE c

RECURSIVE collectLoop(_, _, _)
collectLoop(results, i, c) ==
    IF i > Len(results) THEN c
    ELSE collectLoop(results, i + 1, collectOne(c, results[i]))

\* what runCheckRequirements returns and the audit it ran (audited is FALSE
\* when it returned before runAudit)
Checked(res, audited, probes, audit) ==
    [checkResult |-> res, audited |-> audited, probeOutcomes |-> probes,
     auditResults |-> audit]

\* configOk: getDevSetupConfig returned an array
runCheckRequirements(reqs, configOk, probes) ==
    IF ~configOk
    THEN Checked(CheckResult(FALSE, "Could not read or parse .devsetup.json.", <<>>),
                 FALSE, <<>>, <<>>)
    ELSE IF Len(reqs) = 0
    THEN Checked(CheckResult(TRUE, "No dependencies listed in .devsetup.json to check.", <<>>),
                 FALSE, <<>>, <<>>)
    ELSE LET audit == runAudit(reqs, probes).results
             c == collectLoop(audit, 1, Collected(<<>>, <<>>, <<>>))
         IN  IF Len(c.missing) > 0 \/ Len(c.incompatible) > 0
                \/ Len(c.foundButCantParse) > 0
             THEN Checked(CheckResult(FALSE, "Missing / Incompatible / Version Unknown",
                                      c.missing),
                          TRUE, probes, audit)
             ELSE Checked(CheckResult(TRUE,
                              "All required dependencies are installed and compatible.",
                              <<>>),
                          TRUE, probes, audit)

InitCheck ==
    /\ ExecIdle
    /\ SetupIdle
    /\ OtherIdle
    /\ requirements \in BoundedSeq(SampleRequirements, MaxReqs)
    /\ probeOutcomes = <<>>
    /\ auditResults = <<>>
    /\ auditThrew = FALSE
    /\ actionPlan = <<>>
    /\ secondPlan = <<>>
    /\ planPc = "start"

\* const res = await orchestrator.runCheckRequirements(folder.uri.fsPath);
\* the audit it ran is kept so that createActionPlan can be applied to it
CheckRequirements ==
    /\ planPc = "start"
    /\ \E configOk \in BOOLEAN, probes \in [1..Len(requirements) -> ProbeOutcomes] :
          \E c \in {runCheckRequirements(requirements, configOk, probes)} :
              /\ checkResult' = c.checkResult
              /\ probeOutcomes' = c.probeOutcomes
              /\ auditResults' = c.auditResults
              /\ planPc' = IF c.audited THEN "audited" ELSE "idle"
    /\ UNCHANGED <<requirements, auditThrew, actionPlan, secondPlan, execVars,
                   setupVars, detected, runs>>

NextCheck == CheckRequirements \/ PlanFirst

SpecCheck == InitCheck /\ [][NextCheck]_vars

-----------------------------------------------------------------------------
(* The setup command invoked more than once (extension.ts: activate and     *)
(* runFromExistingFileCommand).  Every invocation is an async handler on    *)
(* the one event loop: it runs until it awaits something, and while it      *)
(* waits another invocation can start.  The invocations share the host, the *)
(* .devsetup.json of the workspace and vscode.window.terminals.             *)

\* invocations of the command
MaxRuns == 2

\* one invocation: where runFullValidationAndSetup is (stage), the state of
\* its executePlan call (m), the plan it executes and what it returned
Run(stage, m, steps, res, started) ==
    [stage |-> stage, m |-> m, steps |-> steps, setupResult |-> res, phases |-> started]

\* the state of an executePlan call that has not started
NotExecuting ==
    [result |-> ExecutionResult(0), terminals |-> <<>>, events |-> <<>>, pc |-> "idle",
     idx |-> 1, child |-> NoChild, lingering |-> 0]

IdleRun == Run("idle", NotExecuting, <<>>, NoSetupResult, <<>>)

\* the invocation is in code that runs without awaiting: the event loop
\* gives no other handler a turn until it suspends
Busy(r) ==
    \/ r.stage = "executing" /\ r.m.pc \in {"loop", "returned"}
    \/ r.stage = "executed"

\* the invocation waits for the user to close a modal dialog, which takes
\* the window's input until it is closed
ModalOpen(r) == r.stage = "executing" /\ r.m.pc \in {"uninstallAck", "installAck"}

\* what executePlan can do next from m on plan pl: one loop iteration up to
\* its first await, the settling of the awaited modal or child process, or
\* the return (the steps of the Executor, on the record m)
executePlanSteps(m, pl, h) ==
    IF m.pc = "loop" /\ m.idx > Len(pl) THEN {finish(m)}
    ELSE IF m.pc = "loop" /\ pl[m.idx].action = "ALREADY_MET" THEN {skipStep(m)}
    ELSE IF m.pc = "loop" /\ pl[m.idx].action = "INSTALL"
    THEN {enterInstall(attemptStep(m), pl[m.idx], h, st) : st \in BOOLEAN}
    ELSE IF m.pc = "loop"
    THEN {enterUninstall(attemptStep(m), pl[m.idx], h, ust, st) :
             ust \in BOOLEAN, st \in BOOLEAN}
    ELSE IF m.pc = "uninstallAck"
    THEN {uninstallReturned(log(m, "ack", NoCommand), pl[m.idx], h, TRUE,
                            uninstallDependency(pl[m.idx], h).command, st) :
             st \in BOOLEAN}
    ELSE IF m.pc = "installAck"
    THEN {installReturned(log(m, "ack", NoCommand), pl[m.idx], TRUE,
                          installDependency(pl[m.idx], h).command)}
    ELSE IF m.pc = "uninstallChild"
    THEN {uninstallReturned(log(m, kind, m.child.command), pl[m.idx], h, FALSE,
                            NoCommand, st) :
             kind \in {"exit0", "exitNonZero", "error"}, st \in BOOLEAN}
    ELSE IF m.pc = "installChild"
    THEN {installClosed(m, pl[m.idx], code) : code \in {0, 1}}
         \cup {catchStep(log(m, "error", m.child.command), pl[m.idx],
                         "Failed to start process")}
    ELSE {}

\* the .devsetup.json of the workspace and the probes of the overlap runs
OverlapRequirements == {DependencyRequirement("git", "Git", GIT_MIN)}

InitOverlap ==
    /\ requirements \in BoundedSeq(OverlapRequirements, MaxReqs)
    /\ probeOutcomes = <<>>
    /\ auditResults = <<>>
    /\ auditThrew = FALSE
    /\ actionPlan = <<>>
    /\ secondPlan = <<>>
    /\ planPc = "idle"
    /\ host \in SetupHosts
    /\ plan = <<>>
    /\ pc = "idle"
    /\ idx = 1
    /\ result = ExecutionResult(0)
    /\ terminals = <<>>
    /\ events = <<>>
    /\ child = NoChild
    /\ lingering = 0
    /\ SetupIdle
    /\ detected = "undetected"
    /\ checkResult = NoCheckResult
    /\ runs = [r \in 1..MaxRuns |-> IdleRun]

OthersLetItRun(r) == \A q \in DOMAIN runs : q # r => ~Busy(runs[q])

\* the command is invoked: runFromExistingFileCommand (l.289-316) finds the
\* file or returns, runWithProgress calls runFullValidationAndSetup, which
\* runs up to `await executePlan(...)` or to the second checkpoint
Trigger(r) ==
    /\ runs[r].stage = "idle"
    /\ \A q \in DOMAIN runs : ~Busy(runs[q]) /\ ~ModalOpen(runs[q])
    /\ \A q \in 1..(r - 1) : runs[q].stage # "idle"
    /\ \E fileExists \in BOOLEAN, configOk \in BOOLEAN,
          probes \in [1..Len(requirements) -> SetupProbes] :
          IF ~fileExists
          THEN runs' = [runs EXCEPT ![r] = Run("done", NotExecuting, <<>>, NoSetupResult, <<>>)]
          ELSE \E b \in {beginSetup(requirements, configOk, probes, NoToken)} :
                  runs' = [runs EXCEPT ![r] =
                              Run(b.to,
                                  [NotExecuting EXCEPT
                                      !.result = b.executionResult,
                                      !.pc = IF b.to = "executing" THEN "loop" ELSE "idle"],
                                  b.actionPlan, b.setupResult, <<>>)]
    /\ UNCHANGED <<plannerVars, execVars, setupVars, detected, checkResult>>

\* executePlan of invocation r goes on: a loop iteration, a settled await or
\* the return, on the shared terminals
RunExecutes(r) ==
    /\ runs[r].stage = "executing"
    /\ OthersLetItRun(r)
    /\ \E m \in executePlanSteps([runs[r].m EXCEPT !.terminals = terminals],
                                 runs[r].steps, host) :
          /\ runs' = [runs EXCEPT ![r].m = m]
          /\ terminals' = m.terminals
    /\ UNCHANGED <<plannerVars, setupVars, detected, checkResult, host, plan, pc, idx,
                   result, events, child, lingering>>

Goes(r, w) ==
    runs' = [runs EXCEPT ![r].stage = w.to, ![r].setupResult = w.setupResult,
                         ![r].phases = w.phases]

\* executePlan of invocation r returned, or was not needed
RunAfterExecute(r) ==
    /\ \/ runs[r].stage = "executing" /\ runs[r].m.pc = "returned"
       \/ runs[r].stage = "executed"
    /\ OthersLetItRun(r)
    /\ Goes(r, afterExecution(NoToken, runs[r].m.result, runs[r].phases))
    /\ UNCHANGED <<plannerVars, execVars, setupVars, detected, checkResult>>

\* the scaffold collaborator of invocation r settled
RunScaffoldSettled(r) ==
    /\ runs[r].stage = "scaffolding"
    /\ OthersLetItRun(r)
    /\ \E outcome \in CollaboratorOutcomes :
          Goes(r, afterScaffold(NoToken, runs[r].m.result, outcome, runs[r].phases))
    /\ UNCHANGED <<plannerVars, execVars, setupVars, detected, checkResult>>

\* the final-setup collaborator of invocation r settled
RunFinalSetupSettled(r) ==
    /\ runs[r].stage = "finalSetup"
    /\ OthersLetItRun(r)
    /\ \E outcome \in CollaboratorOutcomes :
          Goes(r, afterFinalSetup(runs[r].m.result, outcome, runs[r].phases))
    /\ UNCHANGED <<plannerVars, execVars, setupVars, detected, checkResult>>

NextOverlap ==
    \E r \in 1..MaxRuns :
        \/ Trigger(r)
        \/ RunExecutes(r)
        \/ RunAfterExecute(r)
        \/ RunScaffoldSettled(r)
        \/ RunFinalSetupSettled(r)

SpecOverlap == InitOverlap /\ [][NextOverlap]_vars

-----------------------------------------------------------------------------
(* Claims about the Planner and the Auditor *)

Planned == planPc \in {"planned", "replanned"}

\* C4: every AuditResult with isInstalled = false is planned as INSTALL,
\* whatever its requiredVersion and installedVersion.
C4_NotInstalledIsInstall ==
    Planned =>
        \A i \in 1..Len(auditResults) :
            ~auditResults[i].isInstalled =>
                i \in DOMAIN actionPlan /\ actionPlan[i].action = "INSTALL"

\* a not-installed result that carries a version satisfying its range was planned
C4_Witness ==
    /\ Planned
    /\ \E i \in 1..Len(auditResults) :
          /\ ~auditResults[i].isInstalled
          /\ auditResults[i].dependency.requiredVersion = GIT_MIN
          /\ auditResults[i].installedVersion = SemVer(Version(2, 5, 0))
          /\ actionPlan[i].action = "INSTALL"

\* C5: an installed dependency without requiredVersion is ALREADY_MET, also
\* when installedVersion is absent or raw text.
C5_NoRangeIsMet ==
    Planned =>
        \A i \in 1..Len(auditResults) :
            (auditResults[i].isInstalled
               /\ auditResults[i].dependency.requiredVersion.tag = "absent") =>
                i \in DOMAIN actionPlan /\ actionPlan[i].action = "ALREADY_MET"

\* both an absent and a raw installedVersion were planned without a range
C5_Witness ==
    /\ Planned
    /\ Len(auditResults) = 2
    /\ \A i \in 1..2 : /\ auditResults[i].isInstalled
                       /\ auditResults[i].dependency.requiredVersion.tag = "absent"
                       /\ actionPlan[i].action = "ALREADY_MET"
    /\ auditResults[1].installedVersion.tag = "absent"
    /\ auditResults[2].installedVersion.tag = "raw"

\* the (installed version, range) pairs of the samples that semver accepts
SatisfyingPairs ==
    { <<Version(2, 0, 0), GIT_MIN>>,
      <<Version(2, 5, 0), GIT_MIN>>,
      <<Version(1, 9, 0), Range("^", Version(1, 9, 0))>> }

\* C6: installed, with a range and a parsed version: ALREADY_MET if the
\* version is in the range, REINSTALL otherwise.
C6_RangeDecides ==
    Planned =>
        \A i \in 1..Len(auditResults) :
            (auditResults[i].isInstalled
               /\ auditResults[i].dependency.requiredVersion.tag = "range"
               /\ auditResults[i].installedVersion.tag = "semver") =>
                /\ i \in DOMAIN actionPlan
                /\ actionPlan[i].action =
                      IF <<auditResults[i].installedVersion.v,
                           auditResults[i].dependency.requiredVersion>> \in SatisfyingPairs
                      THEN "ALREADY_MET" ELSE "REINSTALL"

\* >=2.0.0 with 2.5.0 gave ALREADY_MET and with 1.9.0 gave REINSTALL
C6_Witness ==
    /\ Planned
    /\ Len(auditResults) = 2
    /\ \A i \in 1..2 : /\ auditResults[i].isInstalled
                       /\ auditResults[i].dependency.requiredVersion = GIT_MIN
    /\ auditResults[1].installedVersion = SemVer(Version(2, 5, 0))
    /\ actionPlan[1].action = "ALREADY_MET"
    /\ auditResults[2].installedVersion = SemVer(Version(1, 9, 0))
    /\ actionPlan[2].action = "REINSTALL"

\* C7: a tool found by the audit whose version did not parse (absent, or the
\* raw fallback text) and whose requirement has a range is planned REINSTALL.
C7_UnparsedForcesReinstall ==
    Planned =>
        \A i \in 1..Len(auditResults) :
            (auditResults[i].isInstalled
               /\ auditResults[i].installedVersion.tag \in {"absent", "raw"}
               /\ auditResults[i].dependency.requiredVersion.tag # "absent") =>
                i \in DOMAIN actionPlan /\ actionPlan[i].action = "REINSTALL"

\* the audit produced one absent and one raw version for ranged requirements
C7_Witness ==
    /\ Planned
    /\ Len(requirements) = 2
    /\ Len(auditResults) = 2
    /\ \A i \in 1..2 : /\ auditResults[i].isInstalled
                       /\ requirements[i].requiredVersion.tag = "range"
                       /\ actionPlan[i].action = "REINSTALL"
    /\ auditResults[1].installedVersion.tag = "absent"
    /\ auditResults[2].installedVersion =
          RawVersion(<<Word("garbage-no-version")>>)

C9_AuditIsFaultIsolated ==
    planPc # "start" =>
        /\ ~auditThrew
        /\ Len(auditResults) = Len(requirements)
        /\ \A i \in 1..Len(requirements) :
              /\ i \in DOMAIN auditResults
              /\ auditResults[i].dependency = requirements[i]
              /\ probeOutcomes[i].exit # "zero" =>
                    /\ ~auditResults[i].isInstalled
                    /\ auditResults[i].notes = FailNote(probeOutcomes[i].message)
              /\ probeOutcomes[i].exit = "zero" =>
                    /\ auditResults[i].isInstalled
                    /\ auditResults[i].notes.tag # "failed"

\* the first probe could not start its binary, the second one succeeded
C9_Witness ==
    /\ planPc = "audited"
    /\ Len(requirements) = 2
    /\ probeOutcomes[1].exit = "spawnfail"
    /\ probeOutcomes[2].exit = "zero"
    /\ ~auditResults[1].isInstalled
    /\ auditResults[1].notes = FailNote("ENOENT")
    /\ auditResults[2].isInstalled
    /\ auditResults[2].installedVersion = SemVer(Version(18, 2, 1))

-----------------------------------------------------------------------------
(* Claims about executePlan *)

Returned == pc = "returned"

\* the plan steps executePlan has to act on
WorkSteps == {i \in 1..Len(plan) : plan[i].action # "ALREADY_MET"}

EventsOf(kind) == {i \in 1..Len(events) : events[i].kind = kind}

\* C1: in the ExecutionResult executePlan returns, stepsAttempted =
\* stepsSucceeded + stepsSkippedSudo + stepsFailed.
C1_CountersAddUp ==
    Returned =>
        result.stepsAttempted =
            result.stepsSucceeded + result.stepsSkippedSudo + result.stepsFailed

\* a returned result with a failed and a handed-off step
C1_Witness ==
    /\ Returned
    /\ result.stepsAttempted = 2
    /\ result.stepsFailed = 1
    /\ result.stepsSkippedSudo = 1

\* some failedStepsInfo entry names the dependency of plan step i
FailedEntryFor(i) ==
    \E j \in 1..Len(result.failedStepsInfo) :
        result.failedStepsInfo[j].dependencyName = plan[i].dependency.name

\* C2: a failing step does not stop the walk: executePlan never raises, every
\* INSTALL/REINSTALL step is attempted, a step without Catalog entry is recorded
\* as failed, and for <<unmapped INSTALL, INSTALL that does not fail>> the
\* result has stepsAttempted = 2 and stepsFailed = 1.
C2_FailureDoesNotStopWalk ==
    /\ pc # "raised"
    /\ Returned =>
        /\ result.stepsAttempted = Cardinality(WorkSteps)
        /\ \A i \in WorkSteps :
              /\ \E e \in EventsOf("attempt") : events[e].step = i
              /\ ~HasCatalogEntry(plan[i].dependency.id) => FailedEntryFor(i)
        /\ result.stepsFailed = Len(result.failedStepsInfo)
        /\ (/\ Len(plan) = 2
            /\ plan[1].action = "INSTALL" /\ ~HasCatalogEntry(plan[1].dependency.id)
            /\ plan[2].action = "INSTALL" /\ ~FailedEntryFor(2))
           => (result.stepsAttempted = 2 /\ result.stepsFailed = 1)

\* macOS: the unmapped step failed, then brew installed git
C2_Witness ==
    /\ Returned
    /\ host.platform = "darwin"
    /\ Len(plan) = 2
    /\ plan[1].action = "INSTALL" /\ plan[1].dependency.id = "mytool"
    /\ plan[2].action = "INSTALL" /\ plan[2].dependency.id = "git"
    /\ result.stepsAttempted = 2
    /\ result.stepsFailed = 1
    /\ result.stepsSucceeded = 1
    /\ \E e \in EventsOf("spawn") :
          events[e].step = 2 /\ events[e].command = brewInstall("git")

AllMet == \A i \in 1..Len(plan) : plan[i].action = "ALREADY_MET"

\* C3: a plan of ALREADY_MET steps only (or no steps) spawns nothing, sends
\* nothing to the terminal, and returns all four counters 0 with totalSteps
\* the plan length.
C3_AllMetIsNoOp ==
    AllMet =>
        /\ EventsOf("spawn") = {} /\ EventsOf("sendText") = {}
        /\ terminals \in {<<>>, <<SudoTerminalName>>} /\ child = NoChild
        /\ Returned =>
              /\ result.stepsAttempted = 0
              /\ result.stepsSucceeded = 0
              /\ result.stepsFailed = 0
              /\ result.stepsSkippedSudo = 0
              /\ result.totalSteps = Len(plan)

\* executePlan returned from a plan of two ALREADY_MET steps
C3_Witness ==
    /\ Returned
    /\ Len(plan) = 2
    /\ AllMet
    /\ result.totalSteps = 2
    /\ result.stepsAttempted = 0

\* the plan steps that, on a Linux host with a detected manager, have a
\* package name in the Catalog
ElevatedSteps ==
    {i \in WorkSteps :
        /\ HasCatalogEntry(plan[i].dependency.id)
        /\ lookupPackage(plan[i].dependency.id, detectLinuxPackageManager(host)).tag = "name"}

\* the plan steps the Catalog maps to null for the detected manager
SentinelSteps ==
    {i \in WorkSteps :
        /\ HasCatalogEntry(plan[i].dependency.id)
        /\ lookupPackage(plan[i].dependency.id, detectLinuxPackageManager(host)).tag = "null"}

\* C10: on Linux with a detected manager no step is counted as succeeded and
\* no child process is spawned; each step with a package name has its install
\* command sent to the terminal and is counted in stepsSkippedSudo.
C10_LinuxIsAlwaysElevated ==
    (host.platform = "linux" /\ detectLinuxPackageManager(host) # "") =>
        /\ result.stepsSucceeded = 0
        /\ EventsOf("spawn") = {}
        /\ Returned =>
              /\ \A i \in ElevatedSteps :
                    \E e \in EventsOf("sendText") :
                        /\ events[e].step = i
                        /\ events[e].command =
                              installArgs(detectLinuxPackageManager(host),
                                  lookupPackage(plan[i].dependency.id,
                                      detectLinuxPackageManager(host)).name)
              /\ result.stepsSkippedSudo =
                    Cardinality(ElevatedSteps) + Cardinality(SentinelSteps)

\* a dnf host: git installed and then reinstalled through the terminal
C10_Witness ==
    /\ Returned
    /\ host.platform = "linux"
    /\ detectLinuxPackageManager(host) = "dnf"
    /\ Len(plan) = 2
    /\ plan[1].action = "INSTALL" /\ plan[2].action = "REINSTALL"
    /\ ElevatedSteps = {1, 2}
    /\ result.stepsSkippedSudo = 2
    /\ result.stepsSucceeded = 0
    /\ \E e \in EventsOf("sendText") :
          events[e].command = <<"sudo", "dnf", "install", "-y", "git">>

\* the plan steps whose dependency the Catalog maps to null on this host
NullSteps ==
    {i \in WorkSteps :
        /\ HasCatalogEntry(plan[i].dependency.id)
        /\ installPackageName(plan[i].dependency, host).tag = "null"}

\* C11: a step whose dependency the Catalog maps to null for the host's
\* platform or package manager never spawns a command and never sends one to
\* the terminal, is not counted in stepsFailed and gets no failedStepsInfo
\* entry.
C11_SentinelIsNotAFailure ==
    /\ \A i \in NullSteps :
          /\ \A e \in EventsOf("spawn") \cup EventsOf("sendText") \cup EventsOf("wingetCheck") :
                events[e].step # i
          /\ ~FailedEntryFor(i)
    /\ result.stepsFailed = Len(result.failedStepsInfo)
    /\ Returned => result.stepsFailed <= Cardinality(WorkSteps \ NullSteps)

\* Windows with winget: docker (null on win32) was handed off as manual, git
\* was installed by winget
C11_Witness ==
    /\ Returned
    /\ host.platform = "win32"
    /\ Len(plan) = 2
    /\ plan[1].action = "INSTALL" /\ plan[1].dependency.id = "docker"
    /\ plan[2].action = "INSTALL" /\ plan[2].dependency.id = "git"
    /\ NullSteps = {1}
    /\ result.stepsSkippedSudo = 1
    /\ result.stepsSucceeded = 1
    /\ result.stepsFailed = 0

\* the counters plan step i landed in
Outcomes(i) ==
    {e \in EventsOf("succeeded") \cup EventsOf("skippedSudo") \cup EventsOf("failed") :
        events[e].step = i}

\* events of an uninstall command / of an install command of step i
UninstallEvents(i) ==
    {e \in DOMAIN events :
        /\ events[e].step = i
        /\ events[e].kind \in {"spawn", "spawnThrew", "sendText"}
        /\ events[e].command = uninstallDependency(plan[i], host).command}

InstallEvents(i) ==
    {e \in DOMAIN events :
        /\ events[e].step = i
        /\ \/ events[e].kind = "wingetCheck"
           \/ /\ events[e].kind \in {"spawn", "spawnThrew", "sendText"}
              /\ events[e].command = installDependency(plan[i], host).command}

\* the child-process events of the install command of step i
InstallChildEvents(i, kind) ==
    {e \in EventsOf(kind) :
        /\ events[e].step = i
        /\ events[e].command = installDependency(plan[i], host).command}

\* C12: in a REINSTALL step the uninstall comes first and the install is
\* always attempted afterwards, also when the uninstall failed or was skipped;
\* the step lands in exactly one counter, the one the install outcome gives.
C12_ReinstallFollowsInstallOutcome ==
    \A i \in 1..Len(plan) :
        plan[i].action = "REINSTALL" =>
            /\ \A u \in UninstallEvents(i), n \in InstallEvents(i) : u < n
            /\ (idx > i) =>
                  LET r == installDependency(plan[i], host)
                      landed == {events[e].kind : e \in Outcomes(i)}
                  IN  /\ Cardinality(Outcomes(i)) = 1
                      /\ r.kind = "throw" => landed = {"failed"}
                      /\ r.kind \in {"manual", "sudo"} => landed = {"skippedSudo"}
                      /\ r.kind = "sudo" => InstallEvents(i) # {}
                      /\ r.wingetChecked => InstallEvents(i) # {}
                      /\ r.kind = "spawn" =>
                            /\ InstallEvents(i) # {}
                            /\ landed = {"succeeded"} <=> InstallChildEvents(i, "exit0") # {}
                            /\ landed = {"failed"} <=>
                                  \E k \in {"spawnThrew", "exitNonZero", "error"} :
                                      InstallChildEvents(i, k) # {}

\* macOS: brew uninstall exited non-zero, brew install then exited 0 and the
\* step is counted as succeeded
C12_Witness ==
    /\ Returned
    /\ host.platform = "darwin"
    /\ Len(plan) = 1
    /\ plan[1].action = "REINSTALL" /\ plan[1].dependency.id = "git"
    /\ \E e \in EventsOf("exitNonZero") : events[e].command = brewUninstall("git")
    /\ \E e \in EventsOf("exit0") : events[e].command = brewInstall("git")
    /\ result.stepsSucceeded = 1
    /\ result.stepsFailed = 0

\* C13: the manualSudoCommands list executePlan returns holds no command more
\* than once.
C13_ManualCommandsAreDeduplicated ==
    Returned =>
        \A i, j \in DOMAIN result.manualSudoCommands :
            i # j => result.manualSudoCommands[i] # result.manualSudoCommands[j]

\* the "failed" events in order: the steps that reached the catch block
FailedEvents == SelectSeq(events, LAMBDA e : e.kind = "failed")

\* the plan steps whose install runs in a child process on this host
SpawnedSteps ==
    {i \in WorkSteps :
        /\ host.platform \in {"darwin", "win32"}
        /\ installDependency(plan[i], host).kind = "spawn"}

\* the message runCommandAsync rejects with after child event `kind`
RejectionOf(kind) ==
    CASE kind = "exitNonZero" -> "process exited with code"
      [] kind = "error" -> "Failed to start process"
      [] kind = "spawnThrew" -> "spawn failed"

\* C14: a non-elevated install (macOS, Windows) counts its step as succeeded
\* exactly when the child exits with code 0; a non-zero exit or a failure to
\* start counts it as failed, with one failedStepsInfo entry holding the
\* dependency name, the action and the error message.
C14_ExitCodeDecides ==
    /\ Len(FailedEvents) = Len(result.failedStepsInfo)
    /\ \A i \in SpawnedSteps :
          (idx > i) =>
              LET landed == {events[e].kind : e \in Outcomes(i)}
                  nth == {k \in DOMAIN FailedEvents : FailedEvents[k].step = i}
              IN  /\ Cardinality(Outcomes(i)) = 1
                  /\ landed = {"succeeded"} <=> InstallChildEvents(i, "exit0") # {}
                  /\ landed \in {{"succeeded"}, {"failed"}}
                  /\ \A kind \in {"exitNonZero", "error", "spawnThrew"} :
                        InstallChildEvents(i, kind) # {} =>
                            /\ landed = {"failed"}
                            /\ Cardinality(nth) = 1
                            /\ \A k \in nth :
                                  result.failedStepsInfo[k] =
                                      [dependencyName |-> plan[i].dependency.name,
                                       action |-> plan[i].action,
                                       errorMessage |-> RejectionOf(kind)]

\* Windows with winget: the first install exited non-zero, the second exited 0
C14_Witness ==
    /\ Returned
    /\ host.platform = "win32"
    /\ SpawnedSteps = {1, 2}
    /\ InstallChildEvents(1, "exitNonZero") # {}
    /\ InstallChildEvents(2, "exit0") # {}
    /\ result.stepsFailed = 1
    /\ result.stepsSucceeded = 1
    /\ Len(result.failedStepsInfo) = 1
    /\ result.failedStepsInfo[1].dependencyName = plan[1].dependency.name

\* commands in flight: child processes started and not yet closed or failed,
\* and terminal hand-offs not yet acknowledged
InFlight ==
    (Cardinality(EventsOf("spawn"))
        - Cardinality(EventsOf("exit0") \cup EventsOf("exitNonZero") \cup EventsOf("error")))
    + (Cardinality(EventsOf("sendText")) - Cardinality(EventsOf("ack")))

CommandEvents ==
    EventsOf("spawn") \cup EventsOf("spawnThrew") \cup EventsOf("sendText")
        \cup EventsOf("wingetCheck")

\* C15: executePlan handles its steps one at a time in plan order: a command
\* of a step starts only after every earlier step has its outcome, and never
\* are two commands (child processes or unacknowledged terminal hand-offs) in
\* flight together.
C15_StepsAreSequential ==
    /\ InFlight \in {0, 1}
    /\ \A e1, e2 \in DOMAIN events : e1 < e2 => events[e1].step <= events[e2].step
    /\ \A e \in CommandEvents :
          \A i \in WorkSteps :
              i < events[e].step => \E o \in Outcomes(i) : o < e
    /\ \A e \in EventsOf("spawn") \cup EventsOf("sendText") :
          \A f \in EventsOf("spawn") \cup EventsOf("sendText") :
              e < f =>
                  \E g \in EventsOf("exit0") \cup EventsOf("exitNonZero")
                              \cup EventsOf("error") \cup EventsOf("ack") :
                      e < g /\ g < f

\* the child of step 2 is running after the child of step 1 was started and
\* closed
C15_Witness ==
    /\ pc = "installChild"
    /\ idx = 2
    /\ InFlight = 1
    /\ \E e \in EventsOf("spawn") : events[e].step = 1
    /\ \E e \in EventsOf("spawn") : events[e].step = 2
    /\ Outcomes(1) # {}

-----------------------------------------------------------------------------
(* Claims about runFullValidationAndSetup *)

Done == setupPc = "done"

Started(collaborator) ==
    \E k \in DOMAIN phases : phases[k] = <<collaborator, "started">>

Succeeded(collaborator) ==
    \E k \in DOMAIN phases : phases[k] = <<collaborator, "ok">>

\* C16: when executePlan reports stepsFailed > 0, runFullValidationAndSetup
\* returns success = false with the failed steps and never starts the
\* scaffold or the final setup.
C16_FailedStepsAbortSetup ==
    result.stepsFailed > 0 =>
        /\ phases = <<>>
        /\ Done =>
              /\ ~setupResult.success
              /\ ~setupResult.partialSuccess
              /\ setupResult.failedSteps = result.failedStepsInfo
              /\ Len(setupResult.failedSteps) = result.stepsFailed

\* not cancelled: executePlan returned one failed step and the run ended with
\* the dependency-failure result
C16_Witness ==
    /\ Done
    /\ ~token.isCancellationRequested
    /\ pc = "returned"
    /\ result.stepsFailed = 1
    /\ setupResult.message = "Dependency installation failed"
    /\ Len(setupResult.failedSteps) = 1

\* C17: cancellation is seen only at the checkpoints after audit, after
\* execution and after scaffold.  Requested while executePlan runs, it
\* neither stops the command in flight nor skips a plan step, and after the
\* execution the run ends with 'Operation cancelled.' without scaffold or
\* final setup; seen after the audit, no plan step is executed; requested
\* during the final setup, it is not seen at all.
C17_CancellationOnlyAtCheckpoints ==
    /\ token.at = "start" =>
          /\ pc = "idle" /\ events = <<>> /\ phases = <<>>
          /\ Done => setupResult.message
                        \in {CancelledMessage, "Invalid or missing .devsetup.json."}
    /\ token.at = "executing" =>
          /\ pc # "idle"
          /\ (setupPc = "executing" /\ pc = "returned") =>
                result.stepsAttempted = Cardinality(WorkSteps)
          /\ setupPc # "executing" =>
                /\ pc = "returned"
                /\ result.stepsAttempted = Cardinality(WorkSteps)
                /\ InFlight = 0
                /\ \A i \in WorkSteps : Cardinality(Outcomes(i)) = 1
          /\ setupPc \in {"executing", "done"}
          /\ phases = <<>>
          /\ Done => (setupResult.message = CancelledMessage /\ ~setupResult.success)
    /\ token.at = "executed" =>
          /\ phases = <<>>
          /\ Done => setupResult.message = CancelledMessage
    /\ token.at = "scaffolding" =>
          /\ ~Started("finalSetup")
          /\ (Done /\ Succeeded("scaffold")) => setupResult.message = CancelledMessage
    /\ token.at = "finalSetup" =>
          (Done => setupResult.message # CancelledMessage)
    /\ (Done /\ setupResult.message = CancelledMessage) => token.isCancellationRequested

\* cancellation was requested while step 1 of 2 was being executed; both
\* steps were attempted and the run then ended as cancelled
C17_Witness ==
    /\ Done
    /\ token.at = "executing"
    /\ token.step = 1
    /\ Len(plan) = 2
    /\ result.stepsAttempted = 2
    /\ EventsOf("spawn") # {}
    /\ setupResult.message = CancelledMessage
    /\ phases = <<>>

\* C18: success = true only when no step failed, none was handed off
\* (stepsSkippedSudo = 0) and scaffold and final setup both succeeded;
\* partialSuccess = true exactly when stepsSkippedSudo > 0, stepsFailed = 0,
\* no cancellation was seen and scaffold and final setup both succeeded.
C18_SuccessAndPartialSuccess ==
    Done =>
        /\ setupResult.success =>
              /\ result.stepsFailed = 0
              /\ result.stepsSkippedSudo = 0
              /\ Succeeded("scaffold") /\ Succeeded("finalSetup")
        /\ setupResult.partialSuccess <=>
              /\ result.stepsSkippedSudo > 0
              /\ result.stepsFailed = 0
              /\ setupResult.message # CancelledMessage
              /\ Succeeded("scaffold") /\ Succeeded("finalSetup")

\* a Linux run whose step was handed to the terminal ends as a partial
\* success listing the command
C18_Witness ==
    /\ Done
    /\ host.platform = "linux"
    /\ result.stepsSkippedSudo > 0
    /\ setupResult.partialSuccess
    /\ ~setupResult.success
    /\ setupResult.manualStepsRequired = result.manualSudoCommands
    /\ Len(setupResult.manualStepsRequired) > 0

-----------------------------------------------------------------------------
(* Claims about the pipeline run twice *)

Rerun == planPc = "rerun"

\* every install of the first run succeeded: no step failed, and the tool of
\* every INSTALL/REINSTALL step answers its probe afterwards
InstallsSucceeded ==
    /\ result.stepsFailed = 0
    /\ \A i \in WorkSteps : probeOutcomes[i].exit = "zero"

\* after the first run the tool of requirement i meets its requirement: no
\* range is required, or the probe output parses to a version in the range
MeetsRequirement(i) ==
    \/ ~Truthy(requirements[i].requiredVersion)
    \/ satisfies(auditResults[i].installedVersion, requirements[i].requiredVersion)

\* C19 as stated: after a first run whose installs all succeeded, the second
\* run's plan holds ALREADY_MET steps only, whatever the requiredVersion and
\* whether or not the probe output can be parsed.
C19_SecondPlanIsAllMet ==
    (Rerun /\ InstallsSucceeded) =>
        \A i \in DOMAIN secondPlan : secondPlan[i].action = "ALREADY_MET"

\* C19 amended: after a first run whose installs all succeeded, the second
\* plan has one step per requirement; the step is ALREADY_MET when no range
\* is required or the probe output parses to a version in the range, and
\* REINSTALL otherwise; what the first run found met is met again.
C19_SecondPlanIsMetWhereVersionParses ==
    (Rerun /\ InstallsSucceeded) =>
        /\ Len(secondPlan) = Len(requirements)
        /\ \A i \in DOMAIN secondPlan :
              /\ secondPlan[i].action =
                    IF MeetsRequirement(i) THEN "ALREADY_MET" ELSE "REINSTALL"
              /\ actionPlan[i].action = "ALREADY_MET" =>
                    secondPlan[i].action = "ALREADY_MET"

\* macOS: git and docker were absent, brew installed both; git now prints a
\* version in the range, docker prints text without a version, and the second
\* plan is ALREADY_MET twice
C19_Witness ==
    /\ Rerun
    /\ InstallsSucceeded
    /\ host.platform = "darwin"
    /\ Len(actionPlan) = 2
    /\ \A i \in DOMAIN actionPlan : actionPlan[i].action = "INSTALL"
    /\ result.stepsSucceeded = 2
    /\ \E i \in DOMAIN auditResults :
          /\ ~Truthy(requirements[i].requiredVersion)
          /\ auditResults[i].installedVersion.tag = "raw"
    /\ \A i \in DOMAIN secondPlan : secondPlan[i].action = "ALREADY_MET"

-----------------------------------------------------------------------------
(* Claims about unparsed probe output *)

\* probe i printed text, none of it a DIGITS.DIGITS.DIGITS group
NoVersionInOutput(i) ==
    /\ probeOutcomes[i].exit = "zero"
    /\ trim(probeOutcomes[i].stdout) # <<>>
    /\ \A k \in DOMAIN probeOutcomes[i].stdout : probeOutcomes[i].stdout[k].k # "num"

\* C20: a probe whose output holds no parseable version (such as
\* "garbage-no-version") gives an AuditResult with isInstalled = true,
\* installedVersion the trimmed raw text, and a note saying the output was
\* not parsed.
C20_UnparsedOutputIsNoted ==
    planPc # "start" =>
        \A i \in DOMAIN auditResults :
            NoVersionInOutput(i) =>
                /\ auditResults[i].isInstalled
                /\ auditResults[i].installedVersion =
                      RawVersion(trim(probeOutcomes[i].stdout))
                /\ auditResults[i].notes # AbsentNote

-----------------------------------------------------------------------------
(* Claims about probes that exit non-zero *)

\* probe i exited non-zero after printing text
PrintedAndFailed(i) ==
    /\ probeOutcomes[i].exit = "nonzero"
    /\ trim(probeOutcomes[i].stdout) # <<>>

\* C21 as stated: a version probe that exits non-zero but prints text gives
\* an AuditResult with isInstalled = true whose installedVersion is what
\* version extraction makes of the printed text.
C21_PrintedTextMeansInstalled ==
    planPc # "start" =>
        \A i \in DOMAIN auditResults :
            PrintedAndFailed(i) =>
                /\ auditResults[i].isInstalled
                /\ auditResults[i].installedVersion =
                      parseVersion(trim(probeOutcomes[i].stdout))

\* C21 amended: a version probe that exits non-zero gives isInstalled = false
\* whatever it printed; the printed text does not go through version
\* extraction (no installedVersion) and notes carries the message of the
\* failed command.  Only exit code 0 yields isInstalled = true.
C21_NonZeroExitMeansNotInstalled ==
    planPc # "start" =>
        \A i \in DOMAIN auditResults :
            /\ auditResults[i].isInstalled <=> probeOutcomes[i].exit = "zero"
            /\ PrintedAndFailed(i) =>
                  /\ auditResults[i].installedVersion = AbsentVersion
                  /\ auditResults[i].notes = FailNote(probeOutcomes[i].message)

\* a probe printed "openjdk version 21.0.1" and exited non-zero; the audit
\* reports the tool as not installed
C21_Witness ==
    /\ planPc = "audited"
    /\ \E i \in DOMAIN auditResults :
          /\ PrintedAndFailed(i)
          /\ parseVersion(trim(probeOutcomes[i].stdout)) = SemVer(Version(21, 0, 1))
          /\ ~auditResults[i].isInstalled

-----------------------------------------------------------------------------
(* Claims about package-manager detection *)

Managers == <<"apt", "dnf", "pacman", "zypper">>

binaryOf(mgr) == IF mgr = "apt" THEN "apt-get" ELSE mgr

\* the managers with a binary under a well-known directory
InWellKnownPaths(h) ==
    {Managers[k] : k \in {j \in DOMAIN Managers :
        \E i \in DOMAIN pathsToCheck : <<pathsToCheck[i], binaryOf(Managers[j])>> \in h.files}}

\* the managers present on the host, on disk or on PATH
Present(h) ==
    InWellKnownPaths(h) \cup
    {Managers[k] : k \in {j \in DOMAIN Managers : binaryOf(Managers[j]) \in h.onPath}}

\* the member of a non-empty set of managers that comes first in apt, dnf,
\* pacman, zypper
Earliest(ms) ==
    Managers[CHOOSE k \in DOMAIN Managers :
                /\ Managers[k] \in ms
                /\ \A j \in 1..(k - 1) : Managers[j] \notin ms]

\* C22: on a Linux host where exactly one of the four managers is present
\* (under a well-known directory or on PATH), detection returns that
\* manager; with only dnf present it returns "dnf", never "apt".
C22_SoleManagerIsDetected ==
    detected # "undetected" =>
        \A k \in DOMAIN Managers :
            Present(host) = {Managers[k]} => detected = Managers[k]

\* dnf is the only manager, found by `which` alone; detection said dnf
C22_Witness ==
    /\ Present(host) = {"dnf"}
    /\ host.files = {}
    /\ detected = "dnf"

\* C23: when the binaries of several managers exist under the well-known
\* directories, detection returns the one earliest in apt, dnf, pacman,
\* zypper, whichever of those directories each binary is in.
C23_PriorityOrderDecides ==
    detected # "undetected" /\ InWellKnownPaths(host) # {} =>
        detected = Earliest(InWellKnownPaths(host))

-----------------------------------------------------------------------------
(* Claims about the elevated hand-off *)

\* positions in the history where a command was sent to the terminal
SentAt == {k \in DOMAIN events : events[k].kind = "sendText"}

\* C24: after the Executor sent an elevated command to the terminal, the
\* next thing it does is receive the user's acknowledgment of the modal for
\* that step; until then it is suspended in that step with no child
\* process, and nothing else (no send, no spawn, no counter) comes between.
C24_AckBeforeAnythingElse ==
    \A k \in SentAt :
        IF k = Len(events)
        THEN /\ pc \in {"uninstallAck", "installAck"}
             /\ idx = events[k].step
             /\ child = NoChild
        ELSE /\ events[k + 1].kind = "ack"
             /\ events[k + 1].step = events[k].step

\* a REINSTALL step on Linux followed by another elevated step: uninstall
\* sent and acknowledged, install sent and acknowledged, then the next
\* step's command sent
C24_Witness ==
    /\ Len(plan) = 2
    /\ plan[1].action = "REINSTALL"
    /\ \E a, b, c \in SentAt :
          /\ a < b /\ b < c
          /\ events[a].step = 1 /\ events[b].step = 1 /\ events[c].step = 2
          /\ events[a].command # events[b].command
          /\ events[a + 1].kind = "ack" /\ events[b + 1].kind = "ack"

-----------------------------------------------------------------------------
(* Claims about the winget prerequisite *)

\* positions in the history where a winget process was started
WingetSpawnedAt ==
    {k \in DOMAIN events :
        /\ events[k].kind = "spawn"
        /\ events[k].command # NoCommand
        /\ Head(events[k].command) = "winget"}

\* C25: on Windows a winget command of a step is spawned only after the
\* presence of winget was verified in that step; when winget is missing the
\* step fails with the prerequisite error and no winget install or
\* uninstall process is started for it, INSTALL and REINSTALL alike.
C25_WingetVerifiedBeforeUse ==
    /\ \A k \in WingetSpawnedAt :
          \E j \in 1..(k - 1) :
              /\ events[j].kind = "wingetCheck"
              /\ events[j].step = events[k].step
    /\ (host.platform = "win32" /\ ~host.winget) => WingetSpawnedAt = {}

-----------------------------------------------------------------------------
(* Claims about the privileged terminal *)

\* the open terminals named 'GeckoPilot Sudo Runner'
SudoTerminals == {i \in DOMAIN terminals : terminals[i] = SudoTerminalName}

\* C26: the privileged terminal is a single reusable session: a terminal
\* named 'GeckoPilot Sudo Runner' is created only when none exists, so
\* whatever elevated commands were handed off, at most one such terminal is
\* open, and exactly one once a command was sent.
C26_OneSudoTerminal ==
    /\ Cardinality(SudoTerminals) <= 1
    /\ SentAt # {} => Cardinality(SudoTerminals) = 1

\* three elevated commands were sent (uninstall and install of one step,
\* install of the next) and one terminal is open
C26_Witness ==
    /\ pc = "returned"
    /\ Cardinality(SentAt) >= 3
    /\ terminals = <<SudoTerminalName>>

-----------------------------------------------------------------------------
(* Claims about the audit-only check *)

\* names of the dependencies the plan marks INSTALL, in plan order
RECURSIVE InstallNames(_)
InstallNames(steps) ==
    IF steps = <<>> THEN <<>>
    ELSE IF Head(steps).action = "INSTALL"
         THEN <<Head(steps).dependency.name>> \o InstallNames(Tail(steps))
         ELSE InstallNames(Tail(steps))

\* runCheckRequirements ran an audit and createActionPlan was applied to it
CheckedAndPlanned == planPc = "planned" /\ checkResult # NoCheckResult

\* C27: on every audit the audit-only check and the Planner agree:
\* ok = true exactly when createActionPlan on the same audit results yields
\* only ALREADY_MET steps, and missing lists exactly the dependencies the
\* plan marks INSTALL, in the same order.
C27_CheckAgreesWithPlan ==
    CheckedAndPlanned =>
        /\ checkResult.ok <=>
              \A i \in DOMAIN actionPlan : actionPlan[i].action = "ALREADY_MET"
        /\ checkResult.missing = InstallNames(actionPlan)

\* two dependencies: the first one's probe fails, the second prints text
\* without a version although a range is required; the check says not ok
\* with the first one missing, the plan says INSTALL then REINSTALL
C27_Witness ==
    /\ CheckedAndPlanned
    /\ Len(actionPlan) = 2
    /\ actionPlan[1].action = "INSTALL"
    /\ actionPlan[2].action = "REINSTALL"
    /\ auditResults[2].installedVersion.tag = "raw"
    /\ ~checkResult.ok
    /\ checkResult.missing = <<requirements[1].name>>

-----------------------------------------------------------------------------
(* Claims about what backs the skipped-sudo counter *)

\* C28: in the ExecutionResult that executePlan returns, every step counted
\* in stepsSkippedSudo is backed by a command the caller can present:
\* stepsSkippedSudo > 0 implies that manualSudoCommands is not empty.
C28_SkippedSudoHasCommands ==
    pc = "returned" =>
        (result.stepsSkippedSudo > 0 => result.manualSudoCommands # <<>>)

-----------------------------------------------------------------------------
(* Claims about termination *)

\* steps whose process emitted 'error'
ErroredSteps == {events[e].step : e \in EventsOf("error")}

\* C29: provided every spawned child process eventually emits 'close' or
\* 'error' and every modal is eventually acknowledged, executePlan
\* eventually returns its ExecutionResult; no step is ever counted twice,
\* and in the returned result every step that was acted on, also one whose
\* process emitted 'error' and then 'close', is counted exactly once.
C29_ExecutePlanReturns ==
    /\ <>(pc = "returned")
    /\ [](/\ \A i \in WorkSteps : Cardinality(Outcomes(i)) <= 1
          /\ pc = "returned" =>
                /\ \A i \in WorkSteps : Cardinality(Outcomes(i)) = 1
                /\ result.stepsSucceeded + result.stepsSkippedSudo + result.stepsFailed
                      = Cardinality(WorkSteps))

\* executePlan returned after the install process of a step emitted 'error'
\* and, later, 'close'; the step is counted once, as failed
C29_Witness ==
    /\ pc = "returned"
    /\ lingering = 0
    /\ \E i \in ErroredSteps :
          /\ plan[i].action = "INSTALL"
          /\ Cardinality(Outcomes(i)) = 1
          /\ \A e \in Outcomes(i) : events[e].kind = "failed"
    /\ result.stepsFailed = Cardinality(ErroredSteps)

-----------------------------------------------------------------------------
(* Claims about overlapping runs *)

\* invocations with an install or uninstall process in flight
InFlightRuns == {r \in DOMAIN runs : runs[r].m.child.state = "running"}

\* invocations whose elevated command awaits acknowledgment
AwaitingAckRuns == {r \in DOMAIN runs : ModalOpen(runs[r])}

\* C30: runs do not overlap: when the setup command is triggered again while
\* an earlier run awaits an install process or an acknowledgment, at most
\* one install/uninstall command is in flight and at most one elevated
\* command awaits acknowledgment at any time.
C30_RunsDoNotOverlap ==
    /\ Cardinality(InFlightRuns) <= 1
    /\ Cardinality(AwaitingAckRuns) <= 1

=============================================================================
